---------------------------- MODULE Spec2Model ----------------------------
(***************************************************************************)
(* A model of the e-cheque extraction-to-delivery pipeline:                *)
(*   processing_component.py  retry controller, naming engine, batch loop  *)
(*   teams_component.py       folder resolution and delivery protocol      *)
(* Text is modelled as sequences of one-character strings, so that the     *)
(* string operations of the source (upper, strip, split/join, re.sub,      *)
(* re.match, f-string composition) are computed rather than assumed.       *)
(***************************************************************************)
EXTENDS Integers, Sequences, FiniteSets, TLC

(***************************************************************************)
(* Text helpers (Python str semantics on the characters the model uses).   *)
(***************************************************************************)
LowerLetters ==
    << "a","b","c","d","e","f","g","h","i","j","k","l","m",
       "n","o","p","q","r","s","t","u","v","w","x","y","z" >>
UpperLetters ==
    << "A","B","C","D","E","F","G","H","I","J","K","L","M",
       "N","O","P","Q","R","S","T","U","V","W","X","Y","Z" >>
Digits == {"0","1","2","3","4","5","6","7","8","9"}
Whitespace == {" ", "\t", "\n"}

IsUpperLetter(c) == \E k \in 1..26 : UpperLetters[k] = c
IsDigit(c) == c \in Digits

\* str.upper() on one character
char_upper(c) ==
    IF \E k \in 1..26 : LowerLetters[k] = c
    THEN UpperLetters[CHOOSE k \in 1..26 : LowerLetters[k] = c]
    ELSE c

\* str.upper()
str_upper(s) == [k \in 1..Len(s) |-> char_upper(s[k])]

\* str.strip(): leading and trailing whitespace removed
RECURSIVE str_lstrip(_)
str_lstrip(s) ==
    IF s # <<>> /\ Head(s) \in Whitespace THEN str_lstrip(Tail(s)) ELSE s

RECURSIVE str_rstrip(_)
str_rstrip(s) ==
    IF s # <<>> /\ s[Len(s)] \in Whitespace
    THEN str_rstrip(SubSeq(s, 1, Len(s) - 1))
    ELSE s

str_strip(s) == str_rstrip(str_lstrip(s))

\* ' '.join(s.split()): words separated by single spaces, no outer whitespace
RECURSIVE join_split(_, _)
join_split(s, acc) ==
    IF s = <<>> THEN acc
    ELSE IF Head(s) \in Whitespace
         THEN join_split(Tail(s),
                         IF acc # <<>> /\ acc[Len(acc)] # " "
                         THEN Append(acc, " ") ELSE acc)
         ELSE join_split(Tail(s), Append(acc, Head(s)))

collapse_spaces(s) == str_rstrip(join_split(str_lstrip(s), <<>>))

EndsWith(s, suffix) ==
    /\ Len(s) >= Len(suffix)
    /\ SubSeq(s, Len(s) - Len(suffix) + 1, Len(s)) = suffix

StartsWith(s, prefix) ==
    /\ Len(s) >= Len(prefix)
    /\ SubSeq(s, 1, Len(prefix)) = prefix

(***************************************************************************)
(* The state.                                                              *)
(***************************************************************************)
VARIABLES
    \* the naming step run on its own
    parsed_json,        \* the extracted fields handed to the naming step
    naming_runs,        \* the results of the naming step, one per run
    \* shared by the naming step and the batch
    mappings_df,        \* the payee alias table object (a pandas DataFrame)
    \* process_echeques
    downloaded_files,   \* the batch: the source identifiers, in input order
    pdf_documents,      \* what each file of the batch holds
    gemini_api_key,     \* TRUE iff an API key is configured
    file_index,         \* the loop variable of process_echeques (1-based)
    proc_pc,            \* where process_echeques stands
    processed_filenames, \* st.session_state.processed_filenames
    processed_files,    \* the success list
    errors,             \* the failure list
    progress_log,       \* the documents progress_callback was called for
    sleep_log,          \* every time.sleep of the batch, in order
    attempt_number,     \* tenacity's attempt number of the current call
    attempt_log,        \* what each attempt of the current call raised
    api_result,         \* what call_gemini_api returned for the current file
    \* determine_target_folder on its own
    filename_input,     \* the filename handed to determine_target_folder
    folder_result,      \* what it returned
    \* upload_files_to_teams and the remote document store
    files_to_upload,    \* the upload batch, in input order
    sanitize_input,     \* the name sanitize_filename is called with
    sanitize_result,    \* what it returned
    token,              \* the access token the batch runs with
    token_expires_at,   \* when it expires (seconds, 0 with no token)
    token_requests,     \* how often the identity provider was asked
    current_time,       \* time.time(), in seconds
    upload_index,       \* the loop variable of upload_files_to_teams (1-based)
    up_pc,              \* where the upload stands
    upload_results,     \* one outcome per delivered file
    upload_error,       \* the error upload_files_to_teams returns, if any
    target_folder,      \* determine_target_folder's answer for the current file
    file_to_upload,     \* the sanitized name of the current delivery
    existing_file_id,   \* the probe's finding (0: none)
    uploaded,           \* bytes sent so far on the chunked path
    request_log,        \* the requests of the current delivery, in order
    store,              \* the items of the remote document store
    store_conforms,     \* TRUE iff the store answers as its contract says
    upload_session      \* the store's open upload session, if any

namingVars == << parsed_json, naming_runs >>

procVars == << downloaded_files, pdf_documents, gemini_api_key, file_index, proc_pc,
               processed_filenames,
               processed_files, errors, progress_log, sleep_log,
               attempt_number, attempt_log, api_result >>

folderVars == << filename_input, folder_result >>

teamsVars == << files_to_upload, token, token_expires_at, token_requests,
                current_time, upload_index, up_pc, upload_results, upload_error,
                target_folder, file_to_upload, existing_file_id, uploaded,
                request_log, store, store_conforms, upload_session >>

sanitizeVars == << sanitize_input, sanitize_result >>
vars == << namingVars, mappings_df, procVars, folderVars, sanitizeVars, teamsVars >>

(***************************************************************************)
(* Text constants of the source and the sample values the model draws on.  *)
(***************************************************************************)
PAYER_WMC ==
    << "W","E","A","L","T","H"," ","M","A","N","A","G","E","M","E","N",
       "T"," ","C","U","B","E"," ","L","I","M","I","T","E","D" >>
PAYER_NOMINEE ==
    << "W","M","C"," ","N","O","M","I","N","E","E"," ","L","I","M","I",
       "T","E","D","-","C","L","I","E","N","T"," ","T","R","U","S","T",
       " ","A","C","C","O","U","N","T" >>
PAYER_WMC_LOWER ==
    << "W","e","a","l","t","h"," ","M","a","n","a","g","e","m","e","n",
       "t"," ","C","u","b","e"," ","L","i","m","i","t","e","d" >>
PAYER_ACME ==
    << "A","C","M","E"," ","L","T","D" >>
STR_OFS ==
    << "O","F","S" >>
STR_OREANA ==
    << "O","R","E","A","N","A"," ","F","I","N","A","N","C","I","A","L",
       " ","S","E","R","V","I","C","E","S"," ","L","I","M","I","T","E",
       "D" >>
PAYEE_AAM ==
    << "A","A","M"," ","A","d","v","i","s","o","r","y" >>
PAYEE_AAM_SPACED ==
    << " ","a","a","m"," "," "," ","a","d","v","i","s","o","r","y" >>
PAYEE_CHEUNG ==
    << "C","h","e","u","n","g"," ","W","i","l","m","a"," ","V","e","r",
       "o","n","i","c","a" >>
PAYEE_OFS_LOWER ==
    << "o","f","s" >>
PAYEE_OREANA ==
    << "O","r","e","a","n","a"," ","F","i","n","a","n","c","i","a","l",
       " ","S","e","r","v","i","c","e","s"," ","L","i","m","i","t","e",
       "d" >>
PAYEE_SLASH ==
    << "A","/","B",":","C" >>
PAYEE_BACKSLASH ==
    << "A","\\","B" >>
ALIAS_FULL_AAM ==
    << "A","A","M"," "," ","A","d","v","i","s","o","r","y" >>
ALIAS_FULL_AAM_DUP ==
    << "a","a","m"," ","a","d","v","i","s","o","r","y" >>
ALIAS_FULL_CHEUNG ==
    << "C","H","E","U","N","G"," ","W","I","L","M","A"," ","V","E","R",
       "O","N","I","C","A" >>
ALIAS_SHORT_AAM ==
    << "A","A","M" >>
ALIAS_SHORT_AAM_DUP ==
    << "A","A","M","2" >>
ALIAS_SHORT_CHEUNG ==
    << "C","W","V" >>
PAYEE_SUN_88 ==
    << "S","U","N"," ","8","8"," ","L","I","M","I","T","E","D" >>
KEY_000495 ==
    << "0","0","0","4","9","5" >>
KEY_100671 ==
    << "1","0","0","6","7","1" >>
CUR_HKD ==
    << "H","K","D" >>
CUR_USD ==
    << "U","S","D" >>
STR_WMC_DASH ==
    << " ","W","M","C","-" >>
STR_T_PDF ==
    << "_","T",".","p","d","f" >>
STR_MF_PDF ==
    << " ","M","F",".","p","d","f" >>
STR_PDF ==
    << ".","p","d","f" >>
SCENARIO_A_NAME ==
    << "0","0","0","4","9","5"," ","W","M","C","-","A","A","M"," ","A",
       "d","v","i","s","o","r","y",".","p","d","f" >>
SCENARIO_B_NAME ==
    << "H","K","D"," ","1","0","0","6","7","1"," ","C","h","e","u","n",
       "g"," ","W","i","l","m","a"," ","V","e","r","o","n","i","c","a",
       ".","p","d","f" >>
SCENARIO_C_NAME ==
    << "0","0","0","4","9","5"," ","W","M","C","-","A","A","M"," ","A",
       "d","v","i","s","o","r","y","_","T",".","p","d","f" >>

(***************************************************************************)
(* processing_component.py : naming engine                                 *)
(***************************************************************************)
\* How often the naming step is run on the same fields and table object.
MaxRuns == 2

\* The character class [\/*?:"<>|] of sanitize_filename: in the raw string the
\* backslash escapes the slash, so the backslash itself is not in the class.
invalid_chars == {"/", "*", "?", ":", "\"", "<", ">", "|"}

\* re.sub(invalid_chars, '_', filename)
sanitize_filename(filename) ==
    [k \in 1..Len(filename) |->
        IF filename[k] \in invalid_chars THEN "_" ELSE filename[k]]

\* A plausible slip: the management-fee branch tested before the trailer branch.
generate_filename_mf_first(key_identifier, payer, payee, currency, is_trailer_fee, is_management_fee) ==
    LET sanitized_payee == sanitize_filename(payee)
        base == IF payer = PAYER_WMC
                THEN key_identifier \o STR_WMC_DASH \o sanitized_payee
                ELSE IF payer = PAYER_NOMINEE
                THEN currency \o <<" ">> \o key_identifier \o <<" ">> \o sanitized_payee
                ELSE sanitized_payee \o <<"_">> \o key_identifier \o <<"_">> \o currency
    IN  IF is_management_fee /\ str_upper(payee) \in {STR_OFS, STR_OREANA}
        THEN base \o STR_MF_PDF
        ELSE IF is_trailer_fee THEN base \o STR_T_PDF
        ELSE base \o STR_PDF

\* A plausible slip: the allow-list compared without .upper().
generate_filename_case_sensitive(key_identifier, payer, payee, currency, is_trailer_fee, is_management_fee) ==
    LET sanitized_payee == sanitize_filename(payee)
        base == IF payer = PAYER_WMC
                THEN key_identifier \o STR_WMC_DASH \o sanitized_payee
                ELSE IF payer = PAYER_NOMINEE
                THEN currency \o <<" ">> \o key_identifier \o <<" ">> \o sanitized_payee
                ELSE sanitized_payee \o <<"_">> \o key_identifier \o <<"_">> \o currency
    IN  IF is_trailer_fee THEN base \o STR_T_PDF
        ELSE IF is_management_fee /\ payee \in {STR_OFS, STR_OREANA}
        THEN base \o STR_MF_PDF
        ELSE base \o STR_PDF

\* A plausible slip: the payer compared case-insensitively.
generate_filename_payer_upper(key_identifier, payer, payee, currency, is_trailer_fee, is_management_fee) ==
    LET sanitized_payee == sanitize_filename(payee)
        base == IF str_upper(payer) = PAYER_WMC
                THEN key_identifier \o STR_WMC_DASH \o sanitized_payee
                ELSE IF str_upper(payer) = PAYER_NOMINEE
                THEN currency \o <<" ">> \o key_identifier \o <<" ">> \o sanitized_payee
                ELSE sanitized_payee \o <<"_">> \o key_identifier \o <<"_">> \o currency
    IN  IF is_trailer_fee THEN base \o STR_T_PDF
        ELSE IF is_management_fee /\ str_upper(payee) \in {STR_OFS, STR_OREANA}
        THEN base \o STR_MF_PDF
        ELSE base \o STR_PDF

\* generate_filename: the nine returns of the source, branch by branch.
generate_filename(key_identifier, payer, payee, currency, is_trailer_fee, is_management_fee) ==
    LET sanitized_payee == sanitize_filename(payee)
    IN  IF is_trailer_fee
        THEN IF payer = PAYER_WMC
             THEN key_identifier \o STR_WMC_DASH \o sanitized_payee \o STR_T_PDF
             ELSE IF payer = PAYER_NOMINEE
             THEN currency \o <<" ">> \o key_identifier \o <<" ">>
                      \o sanitized_payee \o STR_T_PDF
             ELSE sanitized_payee \o <<"_">> \o key_identifier \o <<"_">>
                      \o currency \o STR_T_PDF
        ELSE IF is_management_fee /\ str_upper(payee) \in {STR_OFS, STR_OREANA}
        THEN IF payer = PAYER_WMC
             THEN key_identifier \o STR_WMC_DASH \o sanitized_payee \o STR_MF_PDF
             ELSE IF payer = PAYER_NOMINEE
             THEN currency \o <<" ">> \o key_identifier \o <<" ">>
                      \o sanitized_payee \o STR_MF_PDF
             ELSE sanitized_payee \o <<"_">> \o key_identifier \o <<"_">>
                      \o currency \o STR_MF_PDF
        ELSE IF payer = PAYER_WMC
             THEN key_identifier \o STR_WMC_DASH \o sanitized_payee \o STR_PDF
             ELSE IF payer = PAYER_NOMINEE
             THEN currency \o <<" ">> \o key_identifier \o <<" ">>
                      \o sanitized_payee \o STR_PDF
             ELSE sanitized_payee \o <<"_">> \o key_identifier \o <<"_">>
                      \o currency \o STR_PDF

\* The standardisation of both sides of the alias lookup:
\* ' '.join(x.upper().strip().split())
standardize(name) == collapse_spaces(str_strip(str_upper(name)))

\* mappings_df['Standardized_Name'] = ... : the column is (re)computed from
\* 'Full Name' and stored on the table object itself.
with_standardized(df) ==
    [df EXCEPT !.has_std = TRUE,
               !.Standardized_Name =
                   [k \in 1..Len(df.rows) |-> standardize(df.rows[k].Full_Name)]]

\* A plausible slip: a lookup miss is cached in the table object.
get_payee_shortform_caching(payee, df) ==
    IF df.rows = <<>>
    THEN [ret |-> payee, df |-> df]
    ELSE LET payee_upper == standardize(payee)
             df2 == with_standardized(df)
             match == {k \in 1..Len(df2.rows) : df2.Standardized_Name[k] = payee_upper}
         IN  IF match # {}
             THEN [ret |-> df2.rows[CHOOSE k \in match : \A m \in match : k <= m].Short_Form,
                   df |-> df2]
             ELSE [ret |-> payee,
                   df |-> [df2 EXCEPT !.rows = Append(@, [Full_Name |-> payee_upper,
                                                           Short_Form |-> payee_upper]),
                                      !.Standardized_Name = Append(@, payee_upper)]]

\* get_payee_shortform: the value returned and the table object as the call
\* leaves it (the call adds or overwrites the Standardized_Name column).
get_payee_shortform(payee, df) ==
    IF df.rows = <<>>
    THEN [ret |-> payee, df |-> df]
    ELSE LET payee_upper == standardize(payee)
             df2 == with_standardized(df)
             match == {k \in 1..Len(df2.rows) : df2.Standardized_Name[k] = payee_upper}
         IN  IF match # {}
             THEN [ret |-> df2.rows[CHOOSE k \in match : \A m \in match : k <= m].Short_Form,
                   df |-> df2]
             ELSE [ret |-> payee, df |-> df2]

\* A plausible slip: the alias table is applied whatever the payer.
naming_step_alias_all(fields, df) ==
    LET original_payee == fields.payee
        looked == get_payee_shortform(original_payee, df)
        shortened_payee == looked.ret
        filename == generate_filename(fields.key_identifier, fields.payer,
                                      shortened_payee, fields.currency,
                                      fields.is_trailer_fee, fields.is_management_fee)
    IN  [result |-> [original_payee |-> original_payee,
                     mapped_payee |-> shortened_payee,
                     generated_filename |-> filename],
         df |-> looked.df]

\* process_echeque, from "Get short form of payee" to the returned result.
naming_step(fields, df) ==
    LET original_payee == fields.payee
        looked == IF fields.payer # PAYER_NOMINEE
                  THEN get_payee_shortform(original_payee, df)
                  ELSE [ret |-> original_payee, df |-> df]
        shortened_payee == looked.ret
        filename == generate_filename(fields.key_identifier, fields.payer,
                                      shortened_payee, fields.currency,
                                      fields.is_trailer_fee, fields.is_management_fee)
    IN  [result |-> [original_payee |-> original_payee,
                     mapped_payee |-> shortened_payee,
                     generated_filename |-> filename],
         df |-> looked.df]

\* The field values the naming specification draws on.
Payers == {PAYER_WMC, PAYER_NOMINEE, PAYER_WMC_LOWER, PAYER_ACME}
Payees == {PAYEE_AAM, PAYEE_AAM_SPACED, PAYEE_CHEUNG, PAYEE_OFS_LOWER, STR_OFS,
           PAYEE_OREANA, PAYEE_SLASH, PAYEE_BACKSLASH, PAYEE_SUN_88}
KeyIdentifiers == {KEY_000495, KEY_100671}
Currencies == {CUR_HKD, CUR_USD}

NamingFields ==
    [payer : Payers, payee : Payees, key_identifier : KeyIdentifiers,
     currency : Currencies, is_trailer_fee : BOOLEAN, is_management_fee : BOOLEAN]

\* pd.DataFrame(columns=MAPPING_COLUMNS), as load_mappings returns it for no file
EmptyTable == [rows |-> <<>>, has_std |-> FALSE, Standardized_Name |-> <<>>]

\* A loaded payee_mappings.csv; two rows standardise to the same name.
LoadedTable ==
    [rows |-> << [Full_Name |-> ALIAS_FULL_AAM, Short_Form |-> ALIAS_SHORT_AAM],
                 [Full_Name |-> ALIAS_FULL_AAM_DUP, Short_Form |-> ALIAS_SHORT_AAM_DUP],
                 [Full_Name |-> PAYEE_OREANA, Short_Form |-> STR_OFS] >>,
     has_std |-> FALSE, Standardized_Name |-> <<>>]

\* A table that maps another payee only.
OtherTable ==
    [rows |-> << [Full_Name |-> ALIAS_FULL_CHEUNG, Short_Form |-> ALIAS_SHORT_CHEUNG] >>,
     has_std |-> FALSE, Standardized_Name |-> <<>>]

AliasTables == {EmptyTable, LoadedTable, OtherTable}

NamingIdle ==
    /\ parsed_json = [payer |-> <<>>, payee |-> <<>>, key_identifier |-> <<>>,
                      currency |-> <<>>, is_trailer_fee |-> FALSE,
                      is_management_fee |-> FALSE]
    /\ naming_runs = <<>>

NamingInit ==
    /\ parsed_json \in NamingFields
    /\ mappings_df \in AliasTables
    /\ naming_runs = <<>>

\* One run of the naming step on the current table object.
RunNaming ==
    /\ Len(naming_runs) < MaxRuns
    /\ LET out == naming_step(parsed_json, mappings_df)
       IN  /\ naming_runs' = Append(naming_runs, out.result)
           /\ mappings_df' = out.df
    /\ UNCHANGED << parsed_json, procVars, folderVars, sanitizeVars, teamsVars >>

(***************************************************************************)
(* The naming table of the specification, stated independently of          *)
(* generate_filename: payer class, fee class, template and suffix.         *)
(***************************************************************************)
PayerClassOf(payer) ==
    IF payer = PAYER_WMC THEN "WMC"
    ELSE IF payer = PAYER_NOMINEE THEN "NomineeTrust"
    ELSE "Other"

OnAllowList(resolved_payee) == str_upper(resolved_payee) \in {STR_OFS, STR_OREANA}

FeeClassOf(is_trailer_fee, is_management_fee, resolved_payee) ==
    IF is_trailer_fee THEN "Trailer"
    ELSE IF is_management_fee /\ OnAllowList(resolved_payee) THEN "Management"
    ELSE "None"

TemplateOf(payer_class, key_id, payee, currency) ==
    CASE payer_class = "WMC" -> key_id \o STR_WMC_DASH \o payee
      [] payer_class = "NomineeTrust" -> currency \o <<" ">> \o key_id \o <<" ">> \o payee
      [] payer_class = "Other" -> payee \o <<"_">> \o key_id \o <<"_">> \o currency

SuffixOf(fee_class) ==
    CASE fee_class = "None" -> <<>>
      [] fee_class = "Trailer" -> <<"_","T">>
      [] fee_class = "Management" -> <<" ","M","F">>

\* The template part of a run's filename, from the fields and the resolved payee.
RunBase(run) ==
    TemplateOf(PayerClassOf(parsed_json.payer), parsed_json.key_identifier,
               sanitize_filename(run.mapped_payee), parsed_json.currency)

\* The fee class a generated filename shows: which suffix follows the template.
ShownFeeClass(run) ==
    IF run.generated_filename = RunBase(run) \o STR_T_PDF THEN "Trailer"
    ELSE IF run.generated_filename = RunBase(run) \o STR_MF_PDF THEN "Management"
    ELSE IF run.generated_filename = RunBase(run) \o STR_PDF THEN "None"
    ELSE "NoTemplate"

Runs == {naming_runs[k] : k \in 1..Len(naming_runs)}

\* C6: whenever isTrailerFee is true the filename is the template followed by
\* _T.pdf and does not end in " MF.pdf", whatever isManagementFee and the payee.
C6_TrailerPriority ==
    \A run \in Runs :
        parsed_json.is_trailer_fee =>
            /\ ShownFeeClass(run) = "Trailer"
            /\ EndsWith(run.generated_filename, STR_T_PDF)
            /\ ~EndsWith(run.generated_filename, STR_MF_PDF)

\* C6 witness: both flags true and the resolved payee on the allow-list.
C6_Witness ==
    \E run \in Runs :
        /\ parsed_json.is_trailer_fee
        /\ parsed_json.is_management_fee
        /\ OnAllowList(run.mapped_payee)

\* C7 as amended: the fee class is Management iff isTrailerFee is false,
\* isManagementFee is true and the resolved payee is on the allow-list
\* (case-insensitively); with isTrailerFee false, isManagementFee true and any
\* other resolved payee the class is None and no suffix is appended.
C7_ManagementGate ==
    \A run \in Runs :
        /\ ShownFeeClass(run) = "Management"
              <=> (/\ ~parsed_json.is_trailer_fee
                   /\ parsed_json.is_management_fee
                   /\ OnAllowList(run.mapped_payee))
        /\ (/\ ~parsed_json.is_trailer_fee
            /\ parsed_json.is_management_fee
            /\ ~OnAllowList(run.mapped_payee))
              => ShownFeeClass(run) = "None"

\* C7 witness: a management fee named for a payee that matches the allow-list
\* only case-insensitively.
C7_Witness ==
    \E run \in Runs :
        /\ ~parsed_json.is_trailer_fee
        /\ parsed_json.is_management_fee
        /\ run.mapped_payee = PAYEE_OFS_LOWER
        /\ ShownFeeClass(run) = "Management"

\* C7 as stated: isManagementFee true and a resolved payee off the allow-list
\* give class None and no suffix (whatever isTrailerFee).
C7_AsStated ==
    \A run \in Runs :
        (parsed_json.is_management_fee /\ ~OnAllowList(run.mapped_payee))
            => ShownFeeClass(run) = "None"

\* C8: the filename is exactly the table's template for (payerClass, feeClass)
\* followed by the class's suffix and .pdf; Scenarios A and C give the names
\* the specification lists.
C8_TemplateTable ==
    \A run \in Runs :
        /\ run.generated_filename =
               RunBase(run)
               \o SuffixOf(FeeClassOf(parsed_json.is_trailer_fee,
                                      parsed_json.is_management_fee,
                                      run.mapped_payee))
               \o STR_PDF
        /\ (/\ parsed_json.payer = PAYER_WMC
            /\ parsed_json.key_identifier = KEY_000495
            /\ run.mapped_payee = PAYEE_AAM
            /\ ~parsed_json.is_management_fee)
              => run.generated_filename =
                     IF parsed_json.is_trailer_fee THEN SCENARIO_C_NAME
                     ELSE SCENARIO_A_NAME

\* C8 witness: Scenario C has been named (payer WMC, fee class Trailer).
C8_Witness ==
    \E run \in Runs :
        /\ parsed_json.payer = PAYER_WMC
        /\ parsed_json.is_trailer_fee
        /\ run.mapped_payee = PAYEE_AAM
        /\ run.generated_filename = SCENARIO_C_NAME

\* C9: every run of the naming step on the same fields and the same table
\* object gives the same resolved payee and the same filename.
C9_Deterministic ==
    \A j, k \in 1..Len(naming_runs) :
        /\ naming_runs[j].mapped_payee = naming_runs[k].mapped_payee
        /\ naming_runs[j].generated_filename = naming_runs[k].generated_filename

\* C9 witness: a second run on a table object the first run has written to,
\* after a lookup miss on a non-empty table.
C9_Witness ==
    /\ Len(naming_runs) >= 2
    /\ mappings_df.has_std
    /\ parsed_json.payer # PAYER_NOMINEE
    /\ naming_runs[2].mapped_payee = parsed_json.payee
    /\ standardize(parsed_json.payee) # parsed_json.payee

(***************************************************************************)
(* processing_component.py : retry controller, extraction, batch loop      *)
(***************************************************************************)
MAX_RETRIES == 5
INITIAL_WAIT == 1
MAX_WAIT == 32

\* The longest batch the model runs.
MaxFiles == 2

MSG_429 ==
    << "4","2","9"," ","T","o","o"," ","M","a","n","y"," ","R","e","q",
       "u","e","s","t","s" >>
MSG_TIMEOUT ==
    << "R","e","a","d"," ","t","i","m","e","d"," ","o","u","t" >>
MSG_500 ==
    << "5","0","0"," ","I","n","t","e","r","n","a","l"," ","S","e","r",
       "v","e","r"," ","E","r","r","o","r" >>
MSG_EMPTY_RESPONSE ==
    << "E","m","p","t","y"," ","r","e","s","p","o","n","s","e"," ","f",
       "r","o","m"," ","A","P","I" >>
MSG_RATE_LIMIT_PREFIX ==
    << "R","a","t","e"," ","l","i","m","i","t"," ","e","x","c","e","e",
       "d","e","d",":"," " >>
STR_429 ==
    << "4","2","9" >>

RECURSIVE Pow2(_)
Pow2(n) == IF n <= 0 THEN 1 ELSE 2 * Pow2(n - 1)

Min(a, b) == IF a <= b THEN a ELSE b
Max(a, b) == IF a >= b THEN a ELSE b

\* sub in s
Contains(s, sub) ==
    \E k \in 0..(Len(s) - Len(sub)) : SubSeq(s, k + 1, k + Len(sub)) = sub

\* A plausible slip: the wait computed from the attempt number itself.
wait_exponential_off_by_one(attempt) ==
    Max(0, Min(INITIAL_WAIT * Pow2(attempt), MAX_WAIT))

\* wait_exponential(multiplier=INITIAL_WAIT, max=MAX_WAIT) after the given
\* attempt: multiplier * 2 ** (attempt - 1), clamped to [0, max].
wait_exponential(attempt) ==
    Max(0, Min(INITIAL_WAIT * Pow2(attempt - 1), MAX_WAIT))

\* A plausible slip: one attempt more than MAX_RETRIES before giving up.
stop_after_attempt_late(attempt) == attempt >= MAX_RETRIES + 1

\* stop_after_attempt(MAX_RETRIES)
stop_after_attempt(attempt) == attempt >= MAX_RETRIES

\* A plausible slip: every exception retried, not only the rate-limit ones.
attempt_error_retry_all(outcome) ==
    IF outcome.kind = "response" THEN [raised |-> "none", text |-> <<>>]
    ELSE IF outcome.kind = "none"
    THEN [raised |-> "APIRateLimitError", text |-> MSG_EMPTY_RESPONSE]
    ELSE [raised |-> "APIRateLimitError",
          text |-> MSG_RATE_LIMIT_PREFIX \o outcome.text]

\* The body of call_gemini_api_with_retry on one outcome of the external
\* call: what it raises (nothing, APIRateLimitError, or the error itself).
attempt_error(outcome) ==
    IF outcome.kind = "response" THEN [raised |-> "none", text |-> <<>>]
    ELSE IF outcome.kind = "none"
    THEN \* raised inside the try, caught, found without "429", raised again
         [raised |-> "APIRateLimitError", text |-> MSG_EMPTY_RESPONSE]
    ELSE IF Contains(outcome.text, STR_429)
    THEN [raised |-> "APIRateLimitError",
          text |-> MSG_RATE_LIMIT_PREFIX \o outcome.text]
    ELSE [raised |-> "Exception", text |-> outcome.text]

\* A plausible slip: next_step demanded with the other fields.
required_fields_with_next_step ==
    << "date", "payee", "key_identifier", "payer", "currency",
       "is_trailer_fee", "is_management_fee", "next_step" >>

\* The required fields of process_echeque, in the order of the source list.
required_fields ==
    << "date", "payee", "key_identifier", "payer", "currency",
       "is_trailer_fee", "is_management_fee" >>

AllFields == {required_fields[k] : k \in 1..Len(required_fields)} \cup {"next_step"}

FieldsA ==
    [payer |-> PAYER_WMC, payee |-> PAYEE_AAM, key_identifier |-> KEY_000495,
     currency |-> CUR_HKD, is_trailer_fee |-> FALSE, is_management_fee |-> FALSE]

FieldsB ==
    [payer |-> PAYER_NOMINEE, payee |-> PAYEE_CHEUNG, key_identifier |-> KEY_100671,
     currency |-> CUR_HKD, is_trailer_fee |-> FALSE, is_management_fee |-> FALSE]

\* The texts the recognition service answers with: a JSON object (the keys it
\* holds and their values), bare or inside a ```json fence, or no JSON at all.
Responses ==
    { [fence |-> "none", valid_json |-> TRUE, present |-> AllFields,
       null_fields |-> {}, values |-> FieldsA, next_step |-> "Process Payment"],
      [fence |-> "json", valid_json |-> TRUE, present |-> AllFields,
       null_fields |-> {}, values |-> FieldsB, next_step |-> "Flag for Manual Review"],
      [fence |-> "none", valid_json |-> TRUE,
       present |-> AllFields \ {"key_identifier", "currency"},
       null_fields |-> {}, values |-> FieldsA, next_step |-> "Process Payment"],
      [fence |-> "none", valid_json |-> TRUE, present |-> AllFields \ {"next_step"},
       null_fields |-> {}, values |-> FieldsA, next_step |-> "Process Payment"],
      [fence |-> "json", valid_json |-> TRUE, present |-> AllFields \ {"key_identifier"},
       null_fields |-> {}, values |-> FieldsB, next_step |-> "Process Payment"],
      [fence |-> "none", valid_json |-> TRUE, present |-> {"next_step"},
       null_fields |-> {}, values |-> FieldsA, next_step |-> "Flag for Manual Review"],
      [fence |-> "other", valid_json |-> TRUE, present |-> AllFields,
       null_fields |-> {}, values |-> FieldsA, next_step |-> "Process Payment"],
      [fence |-> "none", valid_json |-> TRUE, present |-> AllFields,
       null_fields |-> {"payee"}, values |-> FieldsA, next_step |-> "Process Payment"],
      [fence |-> "none", valid_json |-> FALSE, present |-> {},
       null_fields |-> {}, values |-> FieldsA, next_step |-> "Process Payment"] }

NoResponse ==
    [fence |-> "none", valid_json |-> FALSE, present |-> {},
     null_fields |-> {}, values |-> FieldsA, next_step |-> "Unknown"]

\* What one invocation of model.generate_content can do: return a response
\* with text, return nothing, or raise.
ApiOutcomes ==
    [kind : {"response"}, text : {<<>>}, response : Responses] \cup
    [kind : {"none"}, text : {<<>>}, response : {NoResponse}] \cup
    [kind : {"exception"}, text : {MSG_429, MSG_TIMEOUT, MSG_500},
     response : {NoResponse}]

NoError == [kind |-> "None", detail |-> <<>>]
ErrorOf(kind, detail) == [kind |-> kind, detail |-> detail]

MSG_MISSING_PREFIX ==
    << "M","i","s","s","i","n","g"," ","r","e","q","u","i","r","e","d",
       " ","f","i","e","l","d","s"," ","i","n"," ","A","P","I"," ","r",
       "e","s","p","o","n","s","e",":"," " >>
STR_COMMA_SPACE ==
    << ","," " >>
TXT_DATE ==
    << "d","a","t","e" >>
TXT_PAYEE ==
    << "p","a","y","e","e" >>
TXT_KEY_IDENTIFIER ==
    << "k","e","y","_","i","d","e","n","t","i","f","i","e","r" >>
TXT_PAYER ==
    << "p","a","y","e","r" >>
TXT_CURRENCY ==
    << "c","u","r","r","e","n","c","y" >>
TXT_IS_TRAILER_FEE ==
    << "i","s","_","t","r","a","i","l","e","r","_","f","e","e" >>
TXT_IS_MANAGEMENT_FEE ==
    << "i","s","_","m","a","n","a","g","e","m","e","n","t","_","f","e",
       "e" >>
TXT_NEXT_STEP ==
    << "n","e","x","t","_","s","t","e","p" >>

\* The name of a field as the error text spells it.
field_text(f) ==
    CASE f = "date" -> TXT_DATE
      [] f = "payee" -> TXT_PAYEE
      [] f = "key_identifier" -> TXT_KEY_IDENTIFIER
      [] f = "payer" -> TXT_PAYER
      [] f = "currency" -> TXT_CURRENCY
      [] f = "is_trailer_fee" -> TXT_IS_TRAILER_FEE
      [] f = "is_management_fee" -> TXT_IS_MANAGEMENT_FEE
      [] OTHER -> TXT_NEXT_STEP

\* ', '.join(names)
RECURSIVE join_comma(_)
join_comma(names) ==
    IF names = <<>> THEN <<>>
    ELSE IF Len(names) = 1 THEN field_text(names[1])
    ELSE field_text(names[1]) \o STR_COMMA_SPACE \o join_comma(Tail(names))

\* A plausible slip: only the first missing field is reported.
missing_fields_first(present) ==
    LET all == SelectSeq(required_fields, LAMBDA f : f \notin present)
    IN  IF all = <<>> THEN <<>> ELSE << all[1] >>

\* [field for field in required_fields if field not in parsed_json]
missing_fields(present) ==
    SelectSeq(required_fields, LAMBDA f : f \notin present)

\* parsed_json.get('next_step', 'Unknown')
next_step_of(present, value) ==
    IF "next_step" \in present THEN value ELSE "Unknown"

\* A payee that is null in the response: payee.upper() raises AttributeError
\* in get_payee_shortform (before the table is touched) and re.sub raises
\* TypeError in sanitize_filename; "except Exception" of process_echeque turns
\* either into the error of the document.  Null in any other field is
\* formatted into the name as the text None.
naming_raises(null_fields) == "payee" \in null_fields

\* process_echeque from "Process response" on: the result or the error, and
\* the table object as the naming step leaves it.
process_response(raw_response, pdf_data, df) ==
    IF ~raw_response.valid_json \/ raw_response.fence \notin {"none", "json"}
    THEN [ok |-> FALSE, error |-> ErrorOf("JsonError", <<>>), df |-> df,
          generated_filename |-> <<>>, mapped_payee |-> <<>>, next_step |-> "Unknown"]
    ELSE LET missing == missing_fields(raw_response.present)
         IN  IF missing # <<>>
             THEN [ok |-> FALSE,
                   error |-> ErrorOf("MissingFields",
                                     MSG_MISSING_PREFIX \o join_comma(missing)),
                   df |-> df,
                   generated_filename |-> <<>>, mapped_payee |-> <<>>,
                   next_step |-> "Unknown"]
             ELSE IF naming_raises(raw_response.null_fields)
             THEN [ok |-> FALSE, error |-> ErrorOf("ProcessingError", <<>>), df |-> df,
                   generated_filename |-> <<>>, mapped_payee |-> <<>>,
                   next_step |-> "Unknown"]
             ELSE LET named == naming_step(raw_response.values, df)
                  IN  [ok |-> TRUE, error |-> NoError, df |-> named.df,
                       generated_filename |-> named.result.generated_filename,
                       mapped_payee |-> named.result.mapped_payee,
                       next_step |-> next_step_of(raw_response.present,
                                                  raw_response.next_step)]

\* The table objects a batch can hold: as loaded, and with the column the
\* lookup adds.
BatchTables ==
    {EmptyTable, LoadedTable, with_standardized(LoadedTable)}

\* process_response on every response and table of a batch, evaluated once.
process_response_values ==
    [raw_response \in Responses, df \in BatchTables |->
        process_response(raw_response, 0, df)]

\* process_response, looked up where it has been evaluated already.
process_response_of(raw_response, pdf_data, df) ==
    IF raw_response \in Responses /\ df \in BatchTables
    THEN process_response_values[raw_response, df]
    ELSE process_response(raw_response, pdf_data, df)

\* The contents a downloaded file can have: bytes fitz cannot open, a PDF
\* without pages, a PDF with a first page.
PdfDocuments == {"unreadable", "no_pages", "one_page"}

ProcIdle ==
    /\ downloaded_files = <<>>
    /\ pdf_documents = <<>>
    /\ gemini_api_key = FALSE
    /\ file_index = 1
    /\ proc_pc = "idle"
    /\ processed_filenames = {}
    /\ processed_files = <<>>
    /\ errors = <<>>
    /\ progress_log = <<>>
    /\ sleep_log = <<>>
    /\ attempt_number = 0
    /\ attempt_log = <<>>
    /\ api_result = [response |-> NoResponse, error |-> NoError]

\* process_echeques has been called: the lists are empty, the mappings are
\* loaded (an unreadable file gives the empty table), the loop is at its top.
ProcInit ==
    /\ \E n \in 0..MaxFiles : downloaded_files = [k \in 1..n |-> k]
    /\ pdf_documents \in [1..Len(downloaded_files) -> PdfDocuments]
    /\ gemini_api_key \in BOOLEAN
    /\ mappings_df \in {EmptyTable, LoadedTable}
    /\ file_index = 1
    /\ proc_pc = IF downloaded_files = <<>> THEN "returned" ELSE "loop"
    /\ processed_filenames = {}
    /\ processed_files = <<>>
    /\ errors = <<>>
    /\ progress_log = <<>>
    /\ sleep_log = <<>>
    /\ attempt_number = 0
    /\ attempt_log = <<>>
    /\ api_result = [response |-> NoResponse, error |-> NoError]

Sleep(why, secs) ==
    [why |-> why, secs |-> secs, file |-> file_index]

\* The end of a loop iteration: the next file, or the return.
NextFile ==
    /\ file_index' = file_index + 1
    /\ proc_pc' = IF file_index + 1 > Len(downloaded_files) THEN "returned" ELSE "loop"

\* A plausible slip: the first failure ends the batch.
RecordError_abort(error) ==
    /\ errors' = Append(errors, [filename |-> downloaded_files[file_index],
                                 error |-> error])
    /\ file_index' = file_index + 1
    /\ proc_pc' = "returned"
    /\ UNCHANGED processed_files

\* errors.append({...}) followed by the end of the iteration.
RecordError(error) ==
    /\ errors' = Append(errors, [filename |-> downloaded_files[file_index],
                                 error |-> error])
    /\ NextFile
    /\ UNCHANGED processed_files

\* A plausible slip: the delay is slept before the first file too.
delay_between_files_always(index) == TRUE

\* if i > 0: the files are counted from 1 here, i = index - 1.
delay_between_files(index) == index > 1

\* A plausible slip: the notification shares the condition of the delay.
progress_callback_after_first(log, i) == IF i > 1 THEN Append(log, i) ELSE log

\* progress_callback(f"Processing file {i+1}/{total_files}: ..."): the call
\* made for file i, first statement of its iteration.
progress_callback(log, i) == Append(log, i)

\* The top of an iteration: the progress notification, which may raise (the
\* except clause of the loop records it), and the delay before every file
\* but the first.
BeginFile ==
    /\ proc_pc = "loop"
    /\ \E raises \in BOOLEAN :
          IF raises
          THEN /\ progress_log' = progress_callback(progress_log, file_index)
               /\ RecordError(ErrorOf("UnexpectedError", <<>>))
               /\ UNCHANGED sleep_log
          ELSE /\ progress_log' = progress_callback(progress_log, file_index)
               /\ sleep_log' = IF delay_between_files(file_index)
                               THEN Append(sleep_log, Sleep("inter_file", 2))
                               ELSE sleep_log
               /\ proc_pc' = "pdf"
               /\ UNCHANGED << file_index, errors, processed_files >>
    /\ UNCHANGED << downloaded_files, pdf_documents, gemini_api_key, processed_filenames, mappings_df,
                    attempt_number, attempt_log, api_result >>
    /\ UNCHANGED << namingVars, folderVars, sanitizeVars, teamsVars >>

\* A plausible slip: the first page loaded without looking at page_count.
pdf_to_image_unchecked(pdf) ==
    IF pdf = "unreadable" THEN ErrorOf("PdfError", <<>>) ELSE NoError

\* pdf_to_image: the error it returns ("Uploaded PDF is empty." for
\* page_count == 0, "Error converting PDF to image" when fitz raises), or
\* none with the image of the first page.
pdf_to_image(pdf) ==
    IF pdf = "no_pages" THEN ErrorOf("EmptyPdf", <<>>)
    ELSE IF pdf = "unreadable" THEN ErrorOf("PdfError", <<>>)
    ELSE NoError

\* process_echeque up to the call: the conversion and its early return.
PdfToImage ==
    /\ proc_pc = "pdf"
    /\ LET error == pdf_to_image(pdf_documents[file_index])
       IN  IF error = NoError
           THEN /\ proc_pc' = "api"
                /\ UNCHANGED << file_index, errors, processed_files >>
           ELSE RecordError(error)
    /\ UNCHANGED << downloaded_files, pdf_documents, gemini_api_key, processed_filenames, mappings_df, progress_log,
                    sleep_log, attempt_number, attempt_log, api_result >>
    /\ UNCHANGED << namingVars, folderVars, sanitizeVars, teamsVars >>

\* call_gemini_api up to the first attempt: the key check and the fixed delay.
CallGeminiApi ==
    /\ proc_pc = "api"
    /\ IF ~gemini_api_key
       THEN /\ api_result' = [response |-> NoResponse,
                              error |-> ErrorOf("MissingApiKey", <<>>)]
            /\ proc_pc' = "response"
            /\ UNCHANGED << sleep_log, attempt_number, attempt_log >>
       ELSE /\ sleep_log' = Append(sleep_log, Sleep("fixed", 1))
            /\ attempt_number' = 1
            /\ attempt_log' = <<>>
            /\ proc_pc' = "attempt"
            /\ UNCHANGED api_result
    /\ UNCHANGED << downloaded_files, pdf_documents, gemini_api_key, processed_filenames, mappings_df, file_index,
                    processed_files, errors, progress_log >>
    /\ UNCHANGED << namingVars, folderVars, sanitizeVars, teamsVars >>

\* A plausible slip: the fixed delay inside the retried function, slept
\* again before every retry.
before_sleep_with_fixed(log, attempt, index) ==
    Append(Append(log, [why |-> "backoff", secs |-> wait_exponential(attempt),
                        file |-> index]),
           [why |-> "fixed", secs |-> 1, file |-> index])

\* What the retry decorator sleeps between a rate-limited attempt and the
\* next one: the wait of wait_exponential and nothing else (time.sleep(1)
\* is in call_gemini_api, outside the decorated function).
before_sleep(log, attempt, index) ==
    Append(log, [why |-> "backoff", secs |-> wait_exponential(attempt),
                 file |-> index])

\* One attempt of call_gemini_api_with_retry under the retry decorator: the
\* external call, tenacity's decision to stop, re-raise or sleep and retry,
\* and, when the call is over, what call_gemini_api returns.
Attempt ==
    /\ proc_pc = "attempt"
    /\ \E outcome \in ApiOutcomes :
          LET e == attempt_error(outcome)
          IN  /\ attempt_log' = Append(attempt_log,
                                        [raised |-> e.raised, text |-> e.text,
                                         kind |-> outcome.kind, cause |-> outcome.text])
              /\ IF e.raised = "none"
                 THEN /\ api_result' = [response |-> outcome.response,
                                        error |-> NoError]
                      /\ proc_pc' = "response"
                      /\ UNCHANGED << attempt_number, sleep_log >>
                 ELSE IF e.raised = "Exception"
                 THEN /\ api_result' = [response |-> NoResponse,
                                        error |-> ErrorOf("UnexpectedApiError", e.text)]
                      /\ proc_pc' = "response"
                      /\ UNCHANGED << attempt_number, sleep_log >>
                 ELSE IF stop_after_attempt(attempt_number)
                 THEN /\ api_result' = [response |-> NoResponse,
                                        error |-> ErrorOf("RateLimitExhausted", e.text)]
                      /\ proc_pc' = "response"
                      /\ UNCHANGED << attempt_number, sleep_log >>
                 ELSE /\ sleep_log' = before_sleep(sleep_log, attempt_number,
                                                   file_index)
                      /\ attempt_number' = attempt_number + 1
                      /\ UNCHANGED << api_result, proc_pc >>
    /\ UNCHANGED << downloaded_files, pdf_documents, gemini_api_key, processed_filenames, mappings_df, file_index,
                    processed_files, errors, progress_log >>
    /\ UNCHANGED << namingVars, folderVars, sanitizeVars, teamsVars >>

\* The rest of process_echeque and of the loop body: the error of the call is
\* recorded, or the response is parsed, checked and named and the result is
\* appended to one of the two lists.
HandleResponse ==
    /\ proc_pc = "response"
    /\ IF api_result.error # NoError
       THEN /\ RecordError(api_result.error)
            /\ UNCHANGED mappings_df
       ELSE LET out == process_response_of(api_result.response,
                                           downloaded_files[file_index], mappings_df)
            IN  /\ mappings_df' = out.df
                /\ IF out.ok
                   THEN /\ processed_files' =
                              Append(processed_files,
                                     [original_filename |-> downloaded_files[file_index],
                                      pdf_data |-> downloaded_files[file_index],
                                      mapped_payee |-> out.mapped_payee,
                                      generated_filename |-> out.generated_filename,
                                      next_step |-> out.next_step])
                        /\ NextFile
                        /\ UNCHANGED errors
                   ELSE RecordError(out.error)
    \* the locals of the call end with it
    /\ attempt_number' = 0
    /\ attempt_log' = <<>>
    /\ api_result' = [response |-> NoResponse, error |-> NoError]
    /\ UNCHANGED << downloaded_files, pdf_documents, gemini_api_key, processed_filenames, progress_log, sleep_log >>
    /\ UNCHANGED << namingVars, folderVars, sanitizeVars, teamsVars >>

\* The places where process_echeques blocks: time.sleep(2) between files,
\* time.sleep(1) before the call, the call itself and tenacity's backoff sleep.
AtBlockingPoint ==
    \/ proc_pc = "loop" /\ file_index > 1
    \/ proc_pc = "api" /\ gemini_api_key
    \/ proc_pc = "attempt"

\* A KeyboardInterrupt (or any other BaseException) raised at a blocking
\* point.  No except clause of the component catches it (except Exception at
\* the loop, in process_echeque and in call_gemini_api; tenacity retries
\* RateLimitError only): it leaves process_echeques, whose two lists are
\* locals and go with the frame.
Interrupt ==
    /\ AtBlockingPoint
    /\ proc_pc' = "interrupted"
    /\ UNCHANGED << downloaded_files, pdf_documents, gemini_api_key, processed_filenames, mappings_df, file_index,
                    processed_files, errors, progress_log, sleep_log,
                    attempt_number, attempt_log, api_result >>
    /\ UNCHANGED << namingVars, folderVars, sanitizeVars, teamsVars >>

\* for file in files_to_process: processed_filenames.add(file['filename']):
\* every file handed to process_echeques is added, whatever became of it.
mark_processed(processed, offered) == processed \cup {offered[k] : k \in 1..Len(offered)}

\* The files the processing tab offers: with the box ticked, those whose
\* name is not in processed_filenames.
files_to_process(downloaded, skip_processed, processed) ==
    SelectSeq(downloaded, LAMBDA f : ~(skip_processed /\ f \in processed))

\* The processing tab after process_echeques has returned: the results are
\* kept and the set of processed filenames is updated.
StoreResults ==
    /\ proc_pc = "returned"
    /\ processed_filenames' =
          mark_processed(processed_filenames, downloaded_files)
    /\ proc_pc' = "stored"
    /\ UNCHANGED << downloaded_files, pdf_documents, gemini_api_key, mappings_df, file_index,
                    processed_files, errors, progress_log, sleep_log,
                    attempt_number, attempt_log, api_result >>
    /\ UNCHANGED << namingVars, folderVars, sanitizeVars, teamsVars >>

ProcNext ==
    \/ BeginFile
    \/ PdfToImage
    \/ CallGeminiApi
    \/ Attempt
    \/ HandleResponse
    \/ Interrupt
    \/ StoreResults

(***************************************************************************)
(* Claims about process_echeques and the retry controller.                 *)
(***************************************************************************)
\* How often file k appears in the two result lists together.
OutcomesOf(k) ==
    Cardinality({j \in 1..Len(processed_files) :
                    processed_files[j].original_filename = downloaded_files[k]})
    + Cardinality({j \in 1..Len(errors) : errors[j].filename = downloaded_files[k]})

\* C2: when process_echeques returns, every input document is in exactly one
\* of the two lists, so successes + failures = N, whatever failed before it.
C2_OneOutcomePerDocument ==
    proc_pc = "returned" =>
        /\ \A k \in 1..Len(downloaded_files) : OutcomesOf(k) = 1
        /\ Len(processed_files) + Len(errors) = Len(downloaded_files)

\* C2 witness: the first document failed with a raised exception and the
\* second was processed all the same.
C2_Witness ==
    /\ proc_pc = "returned"
    /\ Len(downloaded_files) = 2
    /\ \E j \in 1..Len(errors) :
          /\ errors[j].filename = downloaded_files[1]
          /\ errors[j].error.kind = "UnexpectedError"
    /\ \E j \in 1..Len(processed_files) :
          processed_files[j].original_filename = downloaded_files[2]

\* The call of the current file has returned to process_echeque.
CallReturned == proc_pc = "response" /\ attempt_log # <<>>

AllRateLimited ==
    \A k \in 1..Len(attempt_log) : attempt_log[k].raised = "APIRateLimitError"

LastAttempt == attempt_log[Len(attempt_log)]

\* The backoff delays slept during the call of the current file, in order.
BackoffDelays ==
    LET mine == SelectSeq(sleep_log,
                          LAMBDA e : e.why = "backoff" /\ e.file = file_index)
    IN  [k \in 1..Len(mine) |-> mine[k].secs]

RECURSIVE SumSeq(_)
SumSeq(q) == IF q = <<>> THEN 0 ELSE Head(q) + SumSeq(Tail(q))

\* C3: the external call is never invoked a sixth time, and a call whose every
\* attempt was rate-limited (a 429 error or an empty result) ends after exactly
\* MAX_RETRIES invocations with a rate-limit-exhausted error that carries the
\* last underlying error.
C3_FiveAttemptsThenExhausted ==
    /\ Len(attempt_log) <= MAX_RETRIES
    /\ (proc_pc = "attempt" /\ AllRateLimited) => Len(attempt_log) < MAX_RETRIES
    /\ (CallReturned /\ AllRateLimited) =>
          /\ Len(attempt_log) = MAX_RETRIES
          /\ api_result.error.kind = "RateLimitExhausted"
          /\ api_result.error.detail = LastAttempt.text
          /\ EndsWith(api_result.error.detail,
                      IF LastAttempt.kind = "none" THEN MSG_EMPTY_RESPONSE
                      ELSE LastAttempt.cause)

\* C3 witness: five rate-limited attempts, the last one unlike the fourth.
C3_Witness ==
    /\ CallReturned
    /\ AllRateLimited
    /\ Len(attempt_log) = 5
    /\ attempt_log[5].kind = "exception"
    /\ attempt_log[4].kind = "none"

\* An error without the 429 indicator that is not an empty result.
IsFatal(entry) == entry.kind = "exception" /\ ~Contains(entry.cause, STR_429)

\* C4: an attempt that fails with a fatal error is the last attempt of its
\* call: the call has returned that error, and no backoff delay was slept
\* after the attempt (one delay per earlier, rate-limited attempt only).
C4_FatalNotRetried ==
    \A k \in 1..Len(attempt_log) :
        IsFatal(attempt_log[k]) =>
            /\ k = Len(attempt_log)
            /\ proc_pc = "response"
            /\ api_result.error.kind = "UnexpectedApiError"
            /\ api_result.error.detail = attempt_log[k].cause
            /\ Len(BackoffDelays) = k - 1

\* C4 witness: a network timeout on the first attempt.
C4_Witness ==
    /\ CallReturned
    /\ Len(attempt_log) = 1
    /\ attempt_log[1].cause = MSG_TIMEOUT
    /\ BackoffDelays = <<>>

\* C5 as amended: a call that ends rate-limit-exhausted made exactly 5
\* attempts and slept exactly four backoff delays, 1, 2, 4 and 8 time-units
\* (15 in all, none above 32); no delay follows the fifth attempt.
C5_BackoffDelays ==
    (CallReturned /\ api_result.error.kind = "RateLimitExhausted") =>
        /\ Len(attempt_log) = 5
        /\ BackoffDelays = << 1, 2, 4, 8 >>
        /\ \A k \in 1..Len(BackoffDelays) : BackoffDelays[k] <= 32

\* C5 witness: a call has ended rate-limit-exhausted.
C5_Witness ==
    /\ CallReturned
    /\ api_result.error.kind = "RateLimitExhausted"
    /\ SumSeq(BackoffDelays) = 15

\* C5 as stated: exactly 5 attempts and a total backoff delay of at least 31
\* and at most 160 time-units, no single delay above 32.
C5_AsStated ==
    (CallReturned /\ api_result.error.kind = "RateLimitExhausted") =>
        /\ Len(attempt_log) = 5
        /\ SumSeq(BackoffDelays) >= 31
        /\ SumSeq(BackoffDelays) <= 160
        /\ \A k \in 1..Len(BackoffDelays) : BackoffDelays[k] <= 32

(***************************************************************************)
(* C11, C12: the required fields of the recognition response.              *)
(***************************************************************************)
\* process_echeque is about to handle a response that parses to a JSON object.
HandlingObject ==
    /\ proc_pc = "response"
    /\ api_result.error = NoError
    /\ api_result.response.valid_json
    /\ api_result.response.fence \in {"none", "json"}

CheckedFields ==
    {"date", "payee", "key_identifier", "payer", "currency",
     "is_trailer_fee", "is_management_fee"}

LacksCheckedField == \E f \in CheckedFields : f \notin api_result.response.present

\* The failure the step has just recorded for the current document.
RecordedFailure ==
    /\ Len(errors') = Len(errors) + 1
    /\ SubSeq(errors', 1, Len(errors)) = errors
    /\ errors'[Len(errors')].filename = downloaded_files[file_index]

\* C11: when the response lacks key_identifier or any other of date, payee,
\* payer, currency, is_trailer_fee, is_management_fee, the naming step is not
\* run (no result is produced, the alias table object is not touched), the
\* document is recorded as a failure, and the error text names each of these
\* fields that is missing and none that is present.
C11_MissingFieldsRejected ==
    [][ (HandlingObject /\ LacksCheckedField) =>
            /\ processed_files' = processed_files
            /\ mappings_df' = mappings_df
            /\ RecordedFailure
            /\ LET error == errors'[Len(errors')].error
               IN  /\ error.kind = "MissingFields"
                   /\ StartsWith(error.detail, MSG_MISSING_PREFIX)
                   /\ \A f \in CheckedFields :
                          Contains(error.detail, field_text(f))
                              <=> f \notin api_result.response.present
                   /\ "next_step" \in api_result.response.present =>
                          ~Contains(error.detail, TXT_NEXT_STEP) ]_vars

\* Scenario D has happened: a failure that names key_identifier alone.
C11_Witness ==
    \E k \in 1..Len(errors) :
        /\ errors[k].error.kind = "MissingFields"
        /\ errors[k].error.detail = MSG_MISSING_PREFIX \o TXT_KEY_IDENTIFIER

LacksOnlyNextStep ==
    api_result.response.present = CheckedFields

WmcEcheque ==
    [folder_id |-> "01OU6MNL3KE3XP2T5JMZC244U33CGKOAMH",
     folder_path |-> "Finance Staff/Bank/Cashflow/WMC E-cheque",
     folder_name |-> "WMC E-cheque"]

NomineeEcheque ==
    [folder_id |-> "01OU6MNL5F3ZCFDTEACRAJDOX2G4NUMX72",
     folder_path |-> "Finance Staff/Bank/E cheque WMC Nominee",
     folder_name |-> "E cheque WMC Nominee"]

NoFolder == [folder_id |-> "", folder_path |-> "", folder_name |-> ""]

\* The literal lit stands in s at position i.
text_at(s, i, lit) ==
    /\ i + Len(lit) - 1 <= Len(s)
    /\ SubSeq(s, i, i + Len(lit) - 1) = lit

\* \d+ tried at position i: the position after the run of digits.
RECURSIVE digits_end(_, _)
digits_end(s, i) ==
    IF i <= Len(s) /\ IsDigit(s[i]) THEN digits_end(s, i + 1) ELSE i

\* .*\.pdf$ tried at position i: the dot matches every character but the
\* newline, and $ matches at the end of the text or before a newline that
\* ends it.
re_match_tail(s, i) ==
    LET rest == SubSeq(s, i, Len(s))
        line == IF rest # <<>> /\ rest[Len(rest)] = "\n"
                THEN SubSeq(rest, 1, Len(rest) - 1)
                ELSE rest
    IN  /\ EndsWith(line, STR_PDF)
        /\ \A k \in 1..Len(line) : line[k] # "\n"

\* re.match(r'^\d+ WMC-.*\.pdf$', filename)
match_pattern_a(filename) ==
    LET d == digits_end(filename, 1)
    IN  /\ d > 1
        /\ text_at(filename, d, STR_WMC_DASH)
        /\ re_match_tail(filename, d + Len(STR_WMC_DASH))

\* A plausible slip: the currency code matched without regard to case.
match_pattern_b_ignorecase(filename) ==
    /\ Len(filename) >= 3
    /\ \A k \in 1..3 : IsUpperLetter(char_upper(filename[k]))
    /\ text_at(filename, 4, << " " >>)
    /\ LET d == digits_end(filename, 5)
       IN  /\ d > 5
           /\ text_at(filename, d, << " " >>)
           /\ re_match_tail(filename, d + 1)

\* re.match(r'^[A-Z]{3} \d+ .*\.pdf$', filename)
match_pattern_b(filename) ==
    /\ Len(filename) >= 3
    /\ \A k \in 1..3 : IsUpperLetter(filename[k])
    /\ text_at(filename, 4, << " " >>)
    /\ LET d == digits_end(filename, 5)
       IN  /\ d > 5
           /\ text_at(filename, d, << " " >>)
           /\ re_match_tail(filename, d + 1)

determine_target_folder(filename, finance_team_id, access_token) ==
    IF match_pattern_a(filename) THEN WmcEcheque
    ELSE IF match_pattern_b(filename) THEN NomineeEcheque
    ELSE WmcEcheque

\* The filenames folder resolution is tried on: a lead, a body and an ending.
LEAD_000495 ==
    << "0","0","0","4","9","5" >>
LEAD_1 ==
    << "1" >>
LEAD_HKD_100671 ==
    << "H","K","D"," ","1","0","0","6","7","1" >>
LEAD_HKD_LOWER ==
    << "h","k","d"," ","1","0","0","6","7","1" >>
LEAD_HKD ==
    << "H","K","D" >>
LEAD_HK_1 ==
    << "H","K"," ","1" >>
LEAD_HKDX_1 ==
    << "H","K","D","X"," ","1" >>
LEAD_USD_7 ==
    << "U","S","D"," ","7" >>
LEAD_X000495 ==
    << "x","0","0","0","4","9","5" >>
LEAD_0_SPACE_0 ==
    << "0"," ","0" >>
BODY_WMC_AAM ==
    << " ","W","M","C","-","A","A","M" >>
BODY_CHEUNG ==
    << " ","C","h","e","u","n","g"," ","W","i","l","m","a" >>
BODY_WMC_NOSPACE ==
    << "W","M","C","-","A","A","M" >>
BODY_WMC_LOWER ==
    << " ","w","m","c","-","a","a","m" >>
BODY_WMC_NEWLINE ==
    << " ","W","M","C","-","A","\n","B" >>
BODY_SPACE ==
    << " " >>
TAIL_PDF_UPPER ==
    << ".","P","D","F" >>
TAIL_PDFX ==
    << ".","p","d","f","x" >>
TAIL_PDF_PDF ==
    << ".","p","d","f",".","p","d","f" >>
TAIL_PDF_NEWLINE ==
    << ".","p","d","f","\n" >>
TAIL_PDF_NEWLINES ==
    << ".","p","d","f","\n","\n" >>

FolderLeads ==
    { <<>>, LEAD_000495, LEAD_1, LEAD_HKD_100671, LEAD_HKD_LOWER, LEAD_HKD,
      LEAD_HK_1, LEAD_HKDX_1, LEAD_USD_7, LEAD_X000495, LEAD_0_SPACE_0 }

FolderBodies ==
    { <<>>, BODY_WMC_AAM, BODY_CHEUNG, BODY_WMC_NOSPACE, BODY_WMC_LOWER,
      BODY_WMC_NEWLINE, BODY_SPACE, STR_WMC_DASH }

FolderTails ==
    { <<>>, STR_PDF, TAIL_PDF_UPPER, TAIL_PDFX, TAIL_PDF_PDF, TAIL_PDF_NEWLINE,
      TAIL_PDF_NEWLINES }

FolderFilenames ==
    { lead \o body \o tail :
          lead \in FolderLeads, body \in FolderBodies, tail \in FolderTails }
        \cup { SCENARIO_A_NAME, SCENARIO_B_NAME, SCENARIO_C_NAME }

TeamIds == {"finance-team", "other-team"}
AccessTokens == {"None", "token"}

FolderIdle ==
    /\ filename_input = <<>>
    /\ folder_result = [done |-> FALSE, finance_team_id |-> "", access_token |-> "",
                        folder |-> NoFolder]

FolderInit ==
    /\ filename_input \in FolderFilenames
    /\ folder_result = [done |-> FALSE, finance_team_id |-> "", access_token |-> "",
                        folder |-> NoFolder]

\* One call of determine_target_folder.
ResolveFolder ==
    /\ ~folder_result.done
    /\ \E finance_team_id \in TeamIds, access_token \in AccessTokens :
          folder_result' =
              [done |-> TRUE, finance_team_id |-> finance_team_id,
               access_token |-> access_token,
               folder |-> determine_target_folder(filename_input, finance_team_id,
                                                  access_token)]
    /\ UNCHANGED << filename_input, namingVars, mappings_df, procVars, sanitizeVars,
                    teamsVars >>

(***************************************************************************)
(* C10: folder resolution.                                                 *)
(***************************************************************************)
AllDigits(s) == \A k \in 1..Len(s) : s[k] \in Digits
NoNewline(s) == \A k \in 1..Len(s) : s[k] # "\n"

\* The texts the anchors ^ and $ can delimit: the name itself, and the name
\* without the newline that ends it.
Anchored(name) ==
    {name} \cup (IF name # <<>> /\ name[Len(name)] = "\n"
                 THEN {SubSeq(name, 1, Len(name) - 1)} ELSE {})

\* Pattern A, read as a decomposition: digits, " WMC-", anything, ".pdf".
PatternA(name) ==
    \E u \in Anchored(name) : \E d \in 1..Len(u) : \E x \in 0..Len(u) :
        /\ Len(u) = d + 5 + x + 4
        /\ AllDigits(SubSeq(u, 1, d))
        /\ SubSeq(u, d + 1, d + 5) = << " ","W","M","C","-" >>
        /\ NoNewline(SubSeq(u, d + 6, d + 5 + x))
        /\ SubSeq(u, d + 6 + x, Len(u)) = << ".","p","d","f" >>

\* Pattern B: three capitals, a space, digits, a space, anything, ".pdf".
PatternB(name) ==
    \E u \in Anchored(name) : \E d \in 1..Len(u) : \E x \in 0..Len(u) :
        /\ Len(u) = 3 + 1 + d + 1 + x + 4
        /\ \A k \in 1..3 : \E j \in 1..26 : UpperLetters[j] = u[k]
        /\ u[4] = " "
        /\ AllDigits(SubSeq(u, 5, 4 + d))
        /\ u[5 + d] = " "
        /\ NoNewline(SubSeq(u, 6 + d, 5 + d + x))
        /\ SubSeq(u, 6 + d + x, Len(u)) = << ".","p","d","f" >>

\* C10: determine_target_folder answers for every filename, its answer is one
\* of the two folders and depends on the filename alone: the WMC E-cheque
\* folder for a name matching pattern A, otherwise the WMC Nominee folder for a
\* name matching pattern B, otherwise the WMC E-cheque folder; the name of
\* Scenario A resolves to WMC E-cheque and that of Scenario B to WMC Nominee.
C10_FolderResolution ==
    /\ ~folder_result.done => ENABLED ResolveFolder
    /\ folder_result.done =>
          /\ folder_result.folder \in {WmcEcheque, NomineeEcheque}
          /\ folder_result.folder =
                IF PatternA(filename_input) THEN WmcEcheque
                ELSE IF PatternB(filename_input) THEN NomineeEcheque
                ELSE WmcEcheque
          /\ filename_input = SCENARIO_A_NAME => folder_result.folder = WmcEcheque
          /\ filename_input = SCENARIO_B_NAME => folder_result.folder = NomineeEcheque

C10_Witness ==
    /\ folder_result.done
    /\ filename_input = SCENARIO_B_NAME
    /\ PatternB(filename_input)
    /\ folder_result.folder = NomineeEcheque

(***************************************************************************)
(* The delivery protocol (teams_component.py): the filename sanitizer, the *)
(* remote document store as its interface answers, and                     *)
(* upload_files_to_teams / upload_with_sharepoint_api request by request.  *)
(***************************************************************************)
\* How many files an upload batch holds at most.
MaxUploads == 2

\* The character class [\"*:<>?/\\|#%{}~] of the delivery sanitizer.
teams_invalid_chars ==
    {"\"", "*", ":", "<", ">", "?", "/", "\\", "|", "#", "%", "{", "}", "~"}

MAX_NAME_LENGTH == 240

RECURSIVE strip_leading_dots(_)
strip_leading_dots(s) ==
    IF s # <<>> /\ Head(s) = "." THEN strip_leading_dots(Tail(s)) ELSE s

\* s[:n] of Python, n of either sign
slice_to(s, n) ==
    IF n >= 0 THEN SubSeq(s, 1, Min(n, Len(s)))
    ELSE SubSeq(s, 1, Max(0, Len(s) + n))

\* os.path.splitext on a name without separators: the extension starts at the
\* last dot, unless nothing but dots precedes it.
splitext(p) ==
    LET dots == {k \in 1..Len(p) : p[k] = "."}
        dot == IF dots = {} THEN 0
               ELSE CHOOSE k \in dots : \A j \in dots : j <= k
    IN  IF dot > 0 /\ \E k \in 1..(dot - 1) : p[k] # "."
        THEN << SubSeq(p, 1, dot - 1), SubSeq(p, dot, Len(p)) >>
        ELSE << p, <<>> >>

\* sanitize_filename of teams_component.py
teams_sanitize_filename(filename) ==
    LET replaced == [k \in 1..Len(filename) |->
                        IF filename[k] \in teams_invalid_chars
                        THEN "_" ELSE filename[k]]
        sanitized == strip_leading_dots(str_strip(replaced))
    IN  IF Len(sanitized) > MAX_NAME_LENGTH
        THEN LET name_part == splitext(sanitized)[1]
                 ext_part == splitext(sanitized)[2]
             IN  slice_to(name_part, MAX_NAME_LENGTH - Len(ext_part)) \o ext_part
        ELSE sanitized

\* n times the character c
Repeat(c, n) == [k \in 1..n |-> c]

\* The names the sanitizer is tried on: a beginning, a middle and an ending.
SanitizeLeads ==
    { <<>>, << " " >>, << "." >>, << ".", " " >>, << " ", "." >>, << ".", "." >>,
      << "#" >> }
SanitizeBodies ==
    { << "a" >>, << "a", "#", "b" >>, << "a", " ", "b" >>,
      Repeat("x", 236), Repeat("x", 239) \o << " ", "y", "z" >> }
SanitizeTails ==
    { <<>>, << ".", "p", "d", "f" >>, << " " >>, << "." >>,
      << "~", ".", "p", "d", "f", " " >>, << "." >> \o Repeat("e", 250) }
SanitizeNames ==
    { lead \o body \o tail :
        lead \in SanitizeLeads, body \in SanitizeBodies, tail \in SanitizeTails }

NotSanitized == [done |-> FALSE, name |-> <<>>]

SanitizeIdle ==
    /\ sanitize_input = <<>>
    /\ sanitize_result = [done |-> TRUE, name |-> <<>>]

SanitizeInit ==
    /\ sanitize_input \in SanitizeNames
    /\ sanitize_result = NotSanitized

\* One call of sanitize_filename.
SanitizeName ==
    /\ ~sanitize_result.done
    /\ sanitize_result' = [done |-> TRUE, name |-> teams_sanitize_filename(sanitize_input)]
    /\ UNCHANGED << sanitize_input, namingVars, mappings_df, procVars, folderVars,
                    teamsVars >>

\* len(file_data) < 4 * 1024 * 1024 selects the single-shot transfer.
SINGLE_SHOT_LIMIT == 4 * 1024 * 1024
\* A plausible slip: the chunk counted in decimal megabytes.
chunk_size_decimal == 1000 * 1000

chunk_size == 1 * 1024 * 1024

\* A plausible slip: a payload of exactly the limit sent single-shot.
is_small_file_inclusive(size) == size <= SINGLE_SHOT_LIMIT

\* len(file_data) < 4 * 1024 * 1024
is_small_file(size) == size < SINGLE_SHOT_LIMIT

NAME_HASH ==
    << "1"," ","W","M","C","-","A","#","B",".","p","d","f" >>

\* The files an upload batch is made of: a name and a payload (the identity of
\* its bytes and their number).
FilePool ==
    { [generated_filename |-> SCENARIO_A_NAME, original_filename |-> "a.pdf",
       pdf_data |-> [data |-> "bytes-a", size |-> 4 * 1024 * 1024 + 1]],
      [generated_filename |-> SCENARIO_A_NAME, original_filename |-> "b.pdf",
       pdf_data |-> [data |-> "bytes-b", size |-> 4 * 1024 * 1024 - 1]],
      [generated_filename |-> SCENARIO_B_NAME, original_filename |-> "c.pdf",
       pdf_data |-> [data |-> "bytes-c", size |-> 5 * 1024 * 1024]],
      [generated_filename |-> NAME_HASH, original_filename |-> "d.pdf",
       pdf_data |-> [data |-> "bytes-d", size |-> 4 * 1024 * 1024]] }

\* An item the target folder may hold before the batch.
ExistingItem ==
    [id |-> 1, folder |-> WmcEcheque.folder_id, name |-> SCENARIO_A_NAME,
     data |-> "bytes-old", size |-> 16]

NoUploadError == [kind |-> "None", status |-> 0, first |-> 0, last |-> 0]
UploadErrorOf(kind, status, first, last) ==
    [kind |-> kind, status |-> status, first |-> first, last |-> last]

NoSession ==
    [open |-> FALSE, item |-> 0, folder |-> "", name |-> <<>>, received |-> 0]

\* The status a request that the store cannot serve is answered with.
UNAVAILABLE == 503
UNAUTHORIZED == 401

\* ---- the store's side of the interface ---------------------------------
ItemsNamed(st, folder, name) == {it \in st : it.folder = folder /\ it.name = name}

NewItemId(st) ==
    IF st = {} THEN 1
    ELSE 1 + (CHOOSE m \in {it.id : it \in st} : \A it \in st : it.id <= m)

\* The content of the item with this identity is replaced.
write_by_id(st, id, pdf_data) ==
    IF \E it \in st : it.id = id
    THEN [status |-> 200, created |-> FALSE,
          store |-> {IF it.id = id
                     THEN [it EXCEPT !.data = pdf_data.data, !.size = pdf_data.size]
                     ELSE it : it \in st}]
    ELSE [status |-> 404, created |-> FALSE, store |-> st]

\* The item of this name in this folder is replaced, or created if absent.
write_by_path(st, folder, name, pdf_data) ==
    IF name = <<>>
    THEN [status |-> 400, created |-> FALSE, store |-> st]
    ELSE IF ItemsNamed(st, folder, name) # {}
    THEN [status |-> 200, created |-> FALSE,
          store |-> {IF it.folder = folder /\ it.name = name
                     THEN [it EXCEPT !.data = pdf_data.data, !.size = pdf_data.size]
                     ELSE it : it \in st}]
    ELSE [status |-> 201, created |-> TRUE,
          store |-> st \cup {[id |-> NewItemId(st), folder |-> folder, name |-> name,
                              data |-> pdf_data.data, size |-> pdf_data.size]}]

\* ---- the client's side ---------------------------------------------------
CurrentFile == files_to_upload[upload_index]

\* One entry of the request log.
Request(op, by, item, name, first, last, total, status, created) ==
    [op |-> op, by |-> by, item |-> item, folder |-> target_folder.folder_id,
     name |-> name, first |-> first, last |-> last, total |-> total,
     status |-> status, created |-> created, conflict |-> "none"]

\* A plausible slip: the finding of the probe is dropped.
probe_existing_file_id_dropped(status_code, items) == 0

\* existing_file_id as the probe's answer sets it (0 stands for None)
probe_existing_file_id(status_code, items) ==
    IF status_code = 200 /\ items # {}
    THEN CHOOSE id \in {it.id : it \in items} : TRUE
    ELSE 0

\* A plausible slip: any answer of the store taken for a success.
put_succeeded_any_answer(status_code) == status_code # 0

\* if upload_response.status_code in [200, 201]: return True, None
put_succeeded(status_code) == status_code \in {200, 201}

\* A plausible slip: every write addressed by folder + name.
write_address_by_path(file_id) == "path"

\* if existing_file_id: the item's content endpoint, else the path endpoint
write_address(file_id) == IF file_id # 0 THEN "id" ELSE "path"

\* How long a delivery may take, in seconds: a moment, or most of an hour.
Durations == {2, 3400}

\* A plausible slip: the loop is left at the first file that failed.
after_file_stop_on_failure(index, total, success) == IF ~success \/ index + 1 > total THEN "returned" ELSE "next"

\* for i, file_info in enumerate(files_to_upload): the next file follows
\* whatever upload_file returned; after the last one the function returns.
after_file(index, total, success) == IF index + 1 > total THEN "returned" ELSE "next"

\* The first component of the value upload_files_to_teams returns, as a
\* sequence of at most one element: << >> is None, << r >> is the list r.
returned_results(results, error) == IF error # NoUploadError THEN << >> ELSE << results >>

\* upload_results.append({...}) and the end of the loop iteration
FinishUpload(success, error) ==
    /\ upload_results' =
          Append(upload_results,
                 [filename |-> CurrentFile.generated_filename,
                  original_filename |-> CurrentFile.original_filename,
                  success |-> success,
                  error |-> error,
                  target_folder |-> target_folder.folder_name,
                  folder_id |-> target_folder.folder_id])
    /\ upload_index' = upload_index + 1
    /\ up_pc' = after_file(upload_index, Len(files_to_upload), success)
    /\ \E elapsed \in Durations : current_time' = current_time + elapsed

\* time.time() when upload_files_to_teams is called
START_TIME == 100000

\* The token the caller hands over: none, one that expires within the margin,
\* one that expires exactly at the margin, one with a full hour left.
GivenTokens ==
    { [access_token |-> "None", token_expires_at |-> 0],
      [access_token |-> "given", token_expires_at |-> START_TIME + 200],
      [access_token |-> "given", token_expires_at |-> START_TIME + 300],
      [access_token |-> "given", token_expires_at |-> START_TIME + 3600] }

Batches ==
    UNION { [1..n -> FilePool] : n \in 0..MaxUploads }

TeamsIdle ==
    /\ files_to_upload = <<>>
    /\ token = "None"
    /\ token_expires_at = 0
    /\ token_requests = 0
    /\ current_time = START_TIME
    /\ upload_index = 1
    /\ up_pc = "idle"
    /\ upload_results = <<>>
    /\ upload_error = NoUploadError
    /\ target_folder = NoFolder
    /\ file_to_upload = <<>>
    /\ existing_file_id = 0
    /\ uploaded = 0
    /\ request_log = <<>>
    /\ store = {}
    /\ store_conforms = TRUE
    /\ upload_session = NoSession

\* upload_files_to_teams has been called: with no token, with one about to
\* expire or with a fresh one; the folder is empty or holds an item already.
TeamsInit ==
    /\ files_to_upload \in Batches
    /\ current_time = START_TIME
    /\ \E given \in GivenTokens :
          /\ token = given.access_token
          /\ token_expires_at = given.token_expires_at
    /\ token_requests = 0
    /\ upload_index = 1
    /\ up_pc = "token"
    /\ upload_results = <<>>
    /\ upload_error = NoUploadError
    /\ target_folder = NoFolder
    /\ file_to_upload = <<>>
    /\ existing_file_id = 0
    /\ uploaded = 0
    /\ request_log = <<>>
    /\ store \in {{}, {ExistingItem}}
    /\ store_conforms \in BOOLEAN
    /\ upload_session = NoSession

\* The lifetime of a granted token: result.get("expires_in", 3600).
EXPIRES_IN == 3600
\* A token is replaced when it expires in less than this many seconds.
REFRESH_MARGIN == 300

\* A plausible slip: the identity provider asked again after a refusal.
acquire_attempts_retrying(result) == IF result = "error" THEN 2 ELSE 1

\* app.acquire_token_for_client is called once per call of ensure_valid_token
acquire_attempts(result) == 1

\* not current_token or token_expires_at < current_time + 300
needs_new_token(current_token, expires_at, now) ==
    current_token = "None" \/ expires_at < now + REFRESH_MARGIN

\* ensure_valid_token at the start of the batch: a token that is missing or
\* expires within the margin is replaced; the identity provider grants one,
\* refuses with an error, or answers with neither (the current token is then
\* kept).
EnsureValidToken ==
    /\ up_pc = "token"
    /\ IF needs_new_token(token, token_expires_at, current_time)
       THEN \E result \in {"access_token", "error", "neither"} :
               /\ token_requests' = token_requests + acquire_attempts(result)
               /\ IF result = "error"
                  THEN /\ upload_error' = UploadErrorOf("AuthenticationError", 0, 0, 0)
                       /\ token' = "None"
                       /\ token_expires_at' = 0
                       /\ up_pc' = "returned"
                  ELSE /\ token' = IF result = "access_token" THEN "new" ELSE token
                       /\ token_expires_at' = IF result = "access_token"
                                              THEN current_time + EXPIRES_IN
                                              ELSE token_expires_at
                       /\ up_pc' = IF files_to_upload = <<>> THEN "returned" ELSE "next"
                       /\ UNCHANGED upload_error
       ELSE /\ up_pc' = IF files_to_upload = <<>> THEN "returned" ELSE "next"
            /\ UNCHANGED << token, token_expires_at, token_requests, upload_error >>
    /\ UNCHANGED << files_to_upload, current_time, upload_index, upload_results,
                    target_folder, file_to_upload, existing_file_id, uploaded,
                    request_log, store, store_conforms, upload_session >>
    /\ UNCHANGED << namingVars, mappings_df, procVars, folderVars, sanitizeVars >>

\* The head of the loop body: the folder is resolved from the generated
\* filename and upload_with_sharepoint_api is entered.
BeginUpload ==
    /\ up_pc = "next"
    /\ target_folder' = determine_target_folder(CurrentFile.generated_filename,
                                                "finance-team", token)
    /\ file_to_upload' = <<>>
    /\ existing_file_id' = 0
    /\ uploaded' = 0
    /\ request_log' = <<>>
    /\ upload_session' = NoSession
    /\ up_pc' = "site"
    /\ UNCHANGED << files_to_upload, token, token_expires_at, token_requests,
                    current_time, upload_index, upload_results, upload_error,
                    store, store_conforms >>
    /\ UNCHANGED << namingVars, mappings_df, procVars, folderVars, sanitizeVars >>

\* Step 1: GET groups/{team}/sites/root.
GetSite ==
    /\ up_pc = "site"
    /\ \E answer \in (IF token = "None" \/ token_expires_at <= current_time
                      THEN {"unauthorized", "exception"}
                      ELSE {"ok", "no_id", "unavailable", "exception"}) :
          LET status == CASE answer \in {"ok", "no_id"} -> 200
                          [] answer = "unauthorized" -> UNAUTHORIZED
                          [] answer = "unavailable" -> UNAVAILABLE
                          [] OTHER -> 0
          IN  /\ request_log' = Append(request_log,
                     Request("get_site", "none", 0, <<>>, 0, 0, 0, status, FALSE))
              /\ IF answer = "ok"
                 THEN /\ up_pc' = "drives"
                      /\ UNCHANGED << upload_results, upload_index, current_time >>
                 ELSE FinishUpload(FALSE,
                         CASE answer = "no_id" -> UploadErrorOf("NoSiteId", 0, 0, 0)
                           [] answer = "exception" ->
                                  UploadErrorOf("SharePointUploadError", 0, 0, 0)
                           [] OTHER -> UploadErrorOf("SiteError", status, 0, 0))
    /\ UNCHANGED << files_to_upload, token, token_expires_at, token_requests,
                    upload_error, target_folder,
                    file_to_upload, existing_file_id, uploaded, store, store_conforms,
                    upload_session >>
    /\ UNCHANGED << namingVars, mappings_df, procVars, folderVars, sanitizeVars >>

\* GET sites/{site}/drives.
GetDrives ==
    /\ up_pc = "drives"
    /\ \E answer \in {"ok", "no_drives", "unavailable", "exception"} :
          LET status == CASE answer \in {"ok", "no_drives"} -> 200
                          [] answer = "unavailable" -> UNAVAILABLE
                          [] OTHER -> 0
          IN  /\ request_log' = Append(request_log,
                     Request("get_drives", "none", 0, <<>>, 0, 0, 0, status, FALSE))
              /\ IF answer = "ok"
                 THEN /\ up_pc' = "probe"
                      /\ UNCHANGED << upload_results, upload_index, current_time >>
                 ELSE FinishUpload(FALSE,
                         CASE answer = "no_drives" -> UploadErrorOf("NoDrives", 0, 0, 0)
                           [] answer = "exception" ->
                                  UploadErrorOf("SharePointUploadError", 0, 0, 0)
                           [] OTHER -> UploadErrorOf("DrivesError", status, 0, 0))
    /\ UNCHANGED << files_to_upload, token, token_expires_at, token_requests,
                    upload_error, target_folder,
                    file_to_upload, existing_file_id, uploaded, store, store_conforms,
                    upload_session >>
    /\ UNCHANGED << namingVars, mappings_df, procVars, folderVars, sanitizeVars >>

\* The filename is sanitized and the folder is asked for an item of that name.
\* An answer other than 200 leaves existing_file_id unset and the delivery
\* goes on; the payload's size then selects the transfer.
Probe ==
    /\ up_pc = "probe"
    /\ LET safe_filename == teams_sanitize_filename(CurrentFile.generated_filename)
           items == ItemsNamed(store, target_folder.folder_id, safe_filename)
       IN  /\ file_to_upload' = safe_filename
           /\ \E answer \in {"ok", "unavailable", "exception"} :
                 LET status == CASE answer = "ok" -> 200
                                 [] answer = "unavailable" -> UNAVAILABLE
                                 [] OTHER -> 0
                     found == IF answer = "ok" /\ items # {}
                              THEN CHOOSE id \in {it.id : it \in items} : TRUE
                              ELSE 0
                 IN  /\ request_log' = Append(request_log,
                            Request("probe", "none", found, safe_filename, 0, 0, 0,
                                    status, FALSE))
                     /\ IF answer = "exception"
                        THEN /\ FinishUpload(FALSE,
                                    UploadErrorOf("SharePointUploadError", 0, 0, 0))
                             /\ UNCHANGED existing_file_id
                        ELSE /\ existing_file_id' =
                                    probe_existing_file_id(status,
                                        IF answer = "ok" THEN items ELSE {})
                             /\ up_pc' = IF is_small_file(CurrentFile.pdf_data.size)
                                         THEN "put" ELSE "session"
                             /\ UNCHANGED << upload_results, upload_index, current_time >>
    /\ UNCHANGED << files_to_upload, token, token_expires_at, token_requests,
                    upload_error, target_folder, uploaded,
                    store, store_conforms, upload_session >>
    /\ UNCHANGED << namingVars, mappings_df, procVars, folderVars, sanitizeVars >>

\* The single-shot transfer: one PUT of the whole payload, to the content of
\* the existing item or to the path folder + name.  The store serves it,
\* refuses it, or the connection breaks before or after it was served.
PutContent ==
    /\ up_pc = "put"
    /\ LET by == write_address(existing_file_id)
           served == IF by = "id"
                     THEN write_by_id(store, existing_file_id, CurrentFile.pdf_data)
                     ELSE write_by_path(store, target_folder.folder_id,
                                        file_to_upload, CurrentFile.pdf_data)
           total == CurrentFile.pdf_data.size
       IN  \E answer \in {"served", "unavailable", "exception", "lost_answer"} :
              LET applied == answer \in {"served", "lost_answer"}
                  status == CASE answer = "served" -> served.status
                              [] answer = "unavailable" -> UNAVAILABLE
                              [] OTHER -> 0
              IN  /\ store' = IF applied THEN served.store ELSE store
                  /\ request_log' = Append(request_log,
                         Request("put_content", by,
                                 IF by = "id" THEN existing_file_id ELSE 0, file_to_upload,
                                 0, total - 1, total, status,
                                 applied /\ served.created))
                  /\ IF put_succeeded(status)
                     THEN FinishUpload(TRUE, NoUploadError)
                     ELSE IF status = 0
                     THEN FinishUpload(FALSE,
                              UploadErrorOf("SharePointUploadError", 0, 0, 0))
                     ELSE FinishUpload(FALSE,
                              UploadErrorOf(IF by = "id" THEN "UpdateFailed"
                                            ELSE "UploadFailed", status, 0, 0))
    /\ UNCHANGED << files_to_upload, token, token_expires_at, token_requests,
                    upload_error, target_folder,
                    file_to_upload, existing_file_id, uploaded, store_conforms,
                    upload_session >>
    /\ UNCHANGED << namingVars, mappings_df, procVars, folderVars, sanitizeVars >>

\* The chunked transfer opens an upload session, on the existing item or on
\* the path folder + name, declaring the conflict behaviour "replace".
CreateSession ==
    /\ up_pc = "session"
    /\ LET by == write_address(existing_file_id)
           exists == by = "path" \/ \E it \in store : it.id = existing_file_id
       IN  \E answer \in (IF ~exists \/ (by = "path" /\ file_to_upload = <<>>)
                          THEN {"refused", "exception"}
                          ELSE {"ok", "no_url", "unavailable", "exception"}) :
              LET status == CASE answer \in {"ok", "no_url"} -> 200
                              [] answer = "refused" -> 404
                              [] answer = "unavailable" -> UNAVAILABLE
                              [] OTHER -> 0
              IN  /\ request_log' = Append(request_log,
                         [Request("create_session", by,
                                  IF by = "id" THEN existing_file_id ELSE 0,
                                  file_to_upload, 0, 0, 0, status, FALSE)
                            EXCEPT !.conflict = "replace"])
                  /\ upload_session' =
                         IF status = 200
                         THEN [open |-> TRUE,
                               item |-> IF by = "id" THEN existing_file_id ELSE 0,
                               folder |-> target_folder.folder_id,
                               name |-> file_to_upload, received |-> 0]
                         ELSE upload_session
                  /\ IF answer = "ok"
                     THEN /\ up_pc' = "chunk"
                          /\ UNCHANGED << upload_results, upload_index, current_time >>
                     ELSE FinishUpload(FALSE,
                             CASE answer = "no_url" -> UploadErrorOf("NoUploadUrl", 0, 0, 0)
                               [] answer = "exception" ->
                                      UploadErrorOf("SharePointUploadError", 0, 0, 0)
                               [] OTHER -> UploadErrorOf("SessionError", status, 0, 0))
    /\ UNCHANGED << files_to_upload, token, token_expires_at, token_requests,
                    upload_error, target_folder,
                    file_to_upload, existing_file_id, uploaded, store, store_conforms >>
    /\ UNCHANGED << namingVars, mappings_df, procVars, folderVars, sanitizeVars >>

\* A plausible slip: only the client errors end the loop.
chunk_rejected_client_errors(status_code) == status_code >= 400 /\ status_code < 500

\* chunk_response.status_code not in [200, 201, 202]
chunk_rejected(status_code) == status_code \notin {200, 201, 202}

\* A plausible slip: an accepted range taken for the completed upload.
chunk_completes_on_accepted(status_code) == status_code \in {200, 201, 202}

\* A plausible slip: only the creation of an item taken for completion.
chunk_completes_created_only(status_code) == status_code = 201

\* if chunk_response.status_code in [200, 201]: return True, None
chunk_completes(status_code) == status_code \in {200, 201}

\* A plausible slip: the offset is not advanced after an accepted chunk.
uploaded_after_stuck(count, chunk_length) == count

\* uploaded += chunk_length
uploaded_after(count, chunk_length) == count + chunk_length

\* The statuses the store answers an accepted byte range with: by contract
\* 202 while ranges are missing and 200 (item replaced) or 201 (item created)
\* for the range that completes the upload; a store that does not keep to it
\* may answer any of the three.
accepted_statuses(conforms, is_final, created) ==
    IF conforms
    THEN (IF is_final THEN {IF created THEN 201 ELSE 200} ELSE {202})
    ELSE {200, 201, 202}

\* One iteration of the chunk loop: the next byte range is sent; a status
\* outside 200/201/202 aborts, 200 or 201 returns success, and a loop that
\* runs out of bytes without either returns a failure.
Chunk ==
    /\ up_pc = "chunk"
    /\ LET total_size == CurrentFile.pdf_data.size
           chunk_length == Min(chunk_size, total_size - uploaded)
           start == uploaded
           end == uploaded + chunk_length - 1
           is_final == upload_session.received = start /\ end + 1 = total_size
           served == IF upload_session.item # 0
                     THEN write_by_id(store, upload_session.item, CurrentFile.pdf_data)
                     ELSE write_by_path(store, upload_session.folder,
                                        upload_session.name, CurrentFile.pdf_data)
           answers ==
               {[kind |-> "accepted", code |-> c] :
                    c \in accepted_statuses(store_conforms, is_final, served.created)}
               \cup {[kind |-> "unavailable", code |-> UNAVAILABLE],
                     [kind |-> "exception", code |-> 0],
                     [kind |-> "lost_answer", code |-> 0]}
       IN  \E answer \in answers :
              LET applied == answer.kind \in {"accepted", "lost_answer"}
                  status == answer.code
              IN  /\ store' = IF applied /\ is_final THEN served.store ELSE store
                  /\ upload_session' =
                         IF applied
                         THEN [upload_session EXCEPT !.received = end + 1,
                                                     !.open = ~is_final]
                         ELSE upload_session
                  /\ request_log' = Append(request_log,
                         Request("chunk", IF upload_session.item # 0 THEN "id" ELSE "path",
                                 upload_session.item, upload_session.name,
                                 start, end, total_size, status,
                                 applied /\ is_final /\ served.created))
                  /\ IF status = 0
                     THEN /\ FinishUpload(FALSE,
                                 UploadErrorOf("SharePointUploadError", 0, 0, 0))
                          /\ UNCHANGED uploaded
                     ELSE IF chunk_rejected(status)
                     THEN /\ FinishUpload(FALSE,
                                 UploadErrorOf("ChunkUploadFailed", status, start, end))
                          /\ UNCHANGED uploaded
                     ELSE /\ uploaded' = uploaded_after(uploaded, chunk_length)
                          /\ IF chunk_completes(status)
                             THEN FinishUpload(TRUE, NoUploadError)
                             ELSE IF uploaded_after(uploaded, chunk_length) < total_size
                             THEN UNCHANGED << up_pc, upload_results, upload_index, current_time >>
                             ELSE FinishUpload(FALSE,
                                      UploadErrorOf("UnexpectedResponse", 0, 0, 0))
    /\ UNCHANGED << files_to_upload, token, token_expires_at, token_requests,
                    upload_error, target_folder,
                    file_to_upload, existing_file_id, store_conforms >>
    /\ UNCHANGED << namingVars, mappings_df, procVars, folderVars, sanitizeVars >>

TeamsNext ==
    \/ EnsureValidToken
    \/ BeginUpload
    \/ GetSite
    \/ GetDrives
    \/ Probe
    \/ PutContent
    \/ CreateSession
    \/ Chunk

(***************************************************************************)
(* C1: idempotent delivery.                                                *)
(***************************************************************************)
\* The delivery of file k+1 has just returned, it repeats the delivery of
\* file k (same filename, same payload, hence same folder), both succeeded.
RepeatedDelivery(k) ==
    /\ up_pc \in {"next", "returned"}
    /\ k >= 1
    /\ Len(upload_results) = k + 1
    /\ files_to_upload[k].generated_filename = files_to_upload[k + 1].generated_filename
    /\ files_to_upload[k].pdf_data = files_to_upload[k + 1].pdf_data
    /\ upload_results[k].success
    /\ upload_results[k + 1].success

\* The requests of the delivery that has just returned, by kind.
WriteRequests ==
    SelectSeq(request_log, LAMBDA r : r.op \in {"put_content", "create_session", "chunk"})

ProbeFound ==
    \E i \in 1..Len(request_log) :
        /\ request_log[i].op = "probe"
        /\ request_log[i].status = 200
        /\ request_log[i].item # 0

AllWritesBy(by) ==
    /\ WriteRequests # <<>>
    /\ \A i \in 1..Len(WriteRequests) : WriteRequests[i].by = by

CreatedNothing ==
    \A i \in 1..Len(request_log) : ~request_log[i].created

\* Exactly one item of the delivered (sanitized) name in the target folder,
\* holding the payload.
OneItemWithPayload(k) ==
    LET f == files_to_upload[k]
        items == ItemsNamed(store,
                            determine_target_folder(f.generated_filename,
                                                    "finance-team", token).folder_id,
                            teams_sanitize_filename(f.generated_filename))
    IN  /\ Cardinality(items) = 1
        /\ \A it \in items : it.data = f.pdf_data.data /\ it.size = f.pdf_data.size

\* C1, as amended: two successful deliveries in sequence of the same payload
\* under the same filename, against a store that answers byte ranges as its
\* contract says, leave exactly one item of the sanitized name in the target
\* folder, holding the payload; the second delivery creates no item: it
\* updates the item in place when its probe finds it, and when its probe is
\* answered with an error it writes by folder + name, which replaces the item.
C1_IdempotentDelivery ==
    \A k \in 1..MaxUploads :
        (RepeatedDelivery(k) /\ store_conforms) =>
            /\ OneItemWithPayload(k)
            /\ CreatedNothing
            /\ ProbeFound => AllWritesBy("id")
            /\ ~ProbeFound => AllWritesBy("path")

\* Both branches of the second delivery happen: the repeated delivery of a
\* chunked payload whose probe found the item.
C1_Witness ==
    \E k \in 1..MaxUploads :
        /\ RepeatedDelivery(k)
        /\ store_conforms
        /\ files_to_upload[k].pdf_data.size >= SINGLE_SHOT_LIMIT
        /\ ProbeFound
        /\ AllWritesBy("id")
        /\ OneItemWithPayload(k)

\* C1 as stated: ... and the second call takes the update-in-place path.
C1_AsStated ==
    \A k \in 1..MaxUploads :
        (RepeatedDelivery(k) /\ store_conforms) =>
            /\ OneItemWithPayload(k)
            /\ CreatedNothing
            /\ AllWritesBy("id")

(***************************************************************************)
(* C13: the transfer strategy.                                             *)
(***************************************************************************)
\* The file whose delivery the request log belongs to.
LoggedFile ==
    IF up_pc \in {"next", "returned"}
    THEN files_to_upload[upload_index - 1]
    ELSE files_to_upload[upload_index]

DeliveryReturned == up_pc \in {"next", "returned"} /\ request_log # <<>>

RequestsOf(ops) == SelectSeq(request_log, LAMBDA r : r.op \in ops)

\* The probe of the logged delivery was answered, so the transfer was begun.
ProbeAnswered ==
    \E i \in 1..Len(request_log) :
        request_log[i].op = "probe" /\ request_log[i].status # 0

\* C13: the size of the payload alone selects the transfer.  Under 4 MiB the
\* payload goes in exactly one write request and no upload session is opened;
\* from 4 MiB on (4 MiB included) an upload session declaring the conflict
\* behaviour "replace" is opened and the payload goes in chunk requests only.
C13_TransferStrategy ==
    request_log # <<>> =>
        IF LoggedFile.pdf_data.size < 4 * 1024 * 1024
        THEN /\ RequestsOf({"create_session", "chunk"}) = <<>>
             /\ Len(RequestsOf({"put_content"})) <= 1
             /\ (DeliveryReturned /\ ProbeAnswered) =>
                    /\ Len(RequestsOf({"put_content"})) = 1
                    /\ RequestsOf({"put_content"})[1].total = LoggedFile.pdf_data.size
        ELSE /\ RequestsOf({"put_content"}) = <<>>
             /\ Len(RequestsOf({"create_session"})) <= 1
             /\ \A i \in 1..Len(request_log) :
                    /\ request_log[i].op = "create_session" =>
                           request_log[i].conflict = "replace"
                    /\ request_log[i].op = "chunk" =>
                           \E j \in 1..(i - 1) :
                               /\ request_log[j].op = "create_session"
                               /\ request_log[j].status = 200
             /\ (DeliveryReturned /\ ProbeAnswered) =>
                    Len(RequestsOf({"create_session"})) = 1

\* Both strategies at their common boundary: a payload of exactly 4 MiB has
\* been delivered in chunks, and one of a byte less in a single request.
C13_Witness ==
    /\ up_pc = "returned"
    /\ Len(upload_results) = 2
    /\ files_to_upload[1].pdf_data.size = 4 * 1024 * 1024 - 1
    /\ upload_results[1].success
    /\ LoggedFile.pdf_data.size = 4 * 1024 * 1024
    /\ upload_results[2].success
    /\ Len(RequestsOf({"chunk"})) = 4
    /\ RequestsOf({"put_content"}) = <<>>

(***************************************************************************)
(* C14: the byte ranges of a chunked delivery.                             *)
(***************************************************************************)
ChunkLog == RequestsOf({"chunk"})

ChunkSizes == [i \in 1..Len(ChunkLog) |-> ChunkLog[i].last - ChunkLog[i].first + 1]

NoChunkFailed ==
    /\ ChunkLog # <<>>
    /\ \A i \in 1..Len(ChunkLog) : ChunkLog[i].status \in {200, 201, 202}

FailedChunks ==
    {i \in 1..Len(request_log) :
        /\ request_log[i].op = "chunk"
        /\ request_log[i].status \notin {0, 200, 201, 202}}

\* C15: a chunk request answered with a code other than 200, 201 and 202 is
\* the last request of its delivery: it is not sent again, no later range is
\* sent, the session is not taken up again; the delivery has returned at
\* once, with a failure that carries the failing range and the code.
C15_ChunkFailureAborts ==
    \A i \in FailedChunks :
        /\ i = Len(request_log)
        /\ \A j \in 1..(i - 1) :
              request_log[j].op = "chunk" => request_log[j].first < request_log[i].first
        /\ DeliveryReturned
        /\ LET outcome == upload_results[Len(upload_results)]
           IN  /\ ~outcome.success
               /\ outcome.error.kind = "ChunkUploadFailed"
               /\ outcome.error.first = request_log[i].first
               /\ outcome.error.last = request_log[i].last
               /\ outcome.error.status = request_log[i].status

\* The third range of a 5 MiB payload was refused.
C15_Witness ==
    /\ FailedChunks # {}
    /\ Len(ChunkLog) = 3
    /\ LoggedFile.pdf_data.size = 5 * 1024 * 1024
    /\ upload_results[Len(upload_results)].error =
          UploadErrorOf("ChunkUploadFailed", 503, 2 * 1024 * 1024, 3 * 1024 * 1024 - 1)

(***************************************************************************)
(* C16: the existence probe.                                               *)
(***************************************************************************)
ProbeRequests == RequestsOf({"probe"})

WriteOps == {"put_content", "create_session", "chunk"}

\* C16: no write request goes out before the folder has been asked for the
\* sanitized name.  When the probe finds an item every write is addressed to
\* that item's identity and none by path; when it finds none every write is
\* addressed by folder + sanitized name, and where the folder truly holds no
\* such item the write that is served creates it.
C16_ProbeBeforeWrite ==
    /\ Len(ProbeRequests) <= 1
    /\ \A i \in 1..Len(ProbeRequests) :
          /\ ProbeRequests[i].name = teams_sanitize_filename(LoggedFile.generated_filename)
          /\ ProbeRequests[i].folder =
                determine_target_folder(LoggedFile.generated_filename,
                                        "finance-team", token).folder_id
    /\ \A i \in 1..Len(request_log) :
          request_log[i].op \in WriteOps =>
              /\ \E j \in 1..(i - 1) : request_log[j].op = "probe"
              /\ IF ProbeFound
                 THEN /\ request_log[i].by = "id"
                      /\ request_log[i].item = ProbeRequests[1].item
                 ELSE /\ request_log[i].by = "path"
                      /\ request_log[i].folder = ProbeRequests[1].folder
                      /\ request_log[i].name = ProbeRequests[1].name
                      /\ (ProbeRequests[1].status = 200
                              /\ request_log[i].status \in {200, 201}
                              /\ request_log[i].op = "put_content") =>
                             request_log[i].created

\* Both cases in one batch: the first delivery created the item by path, the
\* second found it and updated it in place.
C16_Witness ==
    /\ up_pc = "returned"
    /\ Len(upload_results) = 2
    /\ store_conforms
    /\ upload_results[1].success
    /\ upload_results[2].success
    /\ Cardinality(store) = 1
    /\ ProbeFound
    /\ \E i \in 1..Len(request_log) :
          request_log[i].op = "put_content" /\ request_log[i].by = "id"

(***************************************************************************)
(* C17: the token at the start of each delivery.                           *)
(***************************************************************************)

\* upload_with_sharepoint_api has been entered for a file and has sent
\* nothing yet.
DeliveryStarts == up_pc = "site" /\ request_log = <<>>

\* The token is there and more than five minutes from expiry.
TokenUsable == token # "None" /\ token_expires_at - current_time > REFRESH_MARGIN

\* C17: at the start of every delivery, for each file of a batch, the token
\* in use is present and more than five minutes from expiry.
C17_AsStated == DeliveryStarts => TokenUsable

(***************************************************************************)
(* C18: a refused token.                                                   *)
(***************************************************************************)

AcquisitionFailed == upload_error.kind = "AuthenticationError"

\* C18: when the identity provider refuses the token, it has been asked
\* exactly once, no request has been sent to the document store, no file has
\* been handled and the function has returned.
C18_AcquisitionFailureAborts ==
    AcquisitionFailed =>
        /\ token_requests = 1
        /\ request_log = <<>>
        /\ upload_results = <<>>
        /\ upload_index = 1
        /\ up_pc = "returned"

C18_Witness ==
    /\ AcquisitionFailed
    /\ Len(files_to_upload) = 2
    /\ token_requests = 1
    /\ up_pc = "returned"

(***************************************************************************)
(* C19: what the caller receives after a refused token.                    *)
(***************************************************************************)

\* The list the caller receives, when it receives one.
ReturnedResults == returned_results(upload_results, upload_error)

\* C19: after a refused token the caller still receives an outcome set, with
\* one record per input file, each a failure.
C19_AsStated ==
    (up_pc = "returned" /\ AcquisitionFailed) =>
        /\ ReturnedResults # << >>
        /\ Len(ReturnedResults[1]) = Len(files_to_upload)
        /\ \A i \in 1..Len(ReturnedResults[1]) : ~ReturnedResults[1][i].success

(***************************************************************************)
(* C20: one outcome per file.                                              *)
(***************************************************************************)

TokenObtained == up_pc # "token" /\ ~AcquisitionFailed

\* The outcome of files_to_upload[i] is the i-th record.
OutcomeOf(i) ==
    /\ upload_results[i].filename = files_to_upload[i].generated_filename
    /\ upload_results[i].original_filename = files_to_upload[i].original_filename
    /\ upload_results[i].success \in BOOLEAN
    /\ upload_results[i].success <=> upload_results[i].error = NoUploadError
    /\ upload_results[i].target_folder =
          determine_target_folder(files_to_upload[i].generated_filename,
                                  "finance-team", token).folder_name

\* C20: once a token has been obtained, the records are those of the files
\* handled so far, in input order, each with the filename, the success flag,
\* the error and the resolved folder; the loop goes on to the next file
\* whatever the earlier ones returned, and the function returns only when
\* every file has its record.
C20_OneOutcomePerFile ==
    TokenObtained =>
        /\ Len(upload_results) <= Len(files_to_upload)
        /\ \A i \in 1..Len(upload_results) : OutcomeOf(i)
        /\ up_pc = "returned" <=> Len(upload_results) = Len(files_to_upload)
        /\ up_pc # "returned" => upload_index = Len(upload_results) + 1
        /\ up_pc = "returned" => ReturnedResults = << upload_results >>

C20_Witness ==
    /\ up_pc = "returned"
    /\ TokenObtained
    /\ Len(files_to_upload) = 2
    /\ ~upload_results[1].success
    /\ upload_results[1].error.kind = "ChunkUploadFailed"
    /\ upload_results[2].success

(***************************************************************************)
(* C21: cancellation.                                                      *)
(***************************************************************************)

\* The documents not finished when the signal arrived: the current one and
\* those after it.
Unfinished == file_index..Len(downloaded_files)

\* C21: after a cancellation signal at a blocking point, the current document
\* and every document not yet started have a Cancelled outcome, and the
\* outcomes of the documents handled before are kept.
C21_AsStated ==
    proc_pc = "interrupted" =>
        \A k \in Unfinished :
            \E j \in 1..Len(errors) :
                /\ errors[j].filename = downloaded_files[k]
                /\ errors[j].error.kind = "Cancelled"

(***************************************************************************)
(* C22: payee resolution.                                                  *)
(***************************************************************************)

\* The lookup key of a name: uppercase, whitespace collapsed.
NormalizedKey(name) == collapse_spaces(str_strip(str_upper(name)))

\* The rows of the alias table whose full name has the key of the payee.
AliasHits(payee) ==
    {k \in 1..Len(mappings_df.rows) :
        NormalizedKey(mappings_df.rows[k].Full_Name) = NormalizedKey(payee)}

\* C22: for the trust-account payer the extracted payee is used verbatim and
\* the alias table is not touched; for every other payer the payee resolves
\* to the short form of a row whose normalized full name equals the payee's
\* normalized key, and to the payee itself when there is no such row.  Every
\* run yields a result.
C22_PayeeResolution ==
    \A j \in 1..Len(naming_runs) :
        /\ naming_runs[j].original_payee = parsed_json.payee
        /\ IF parsed_json.payer = PAYER_NOMINEE
           THEN /\ naming_runs[j].mapped_payee = parsed_json.payee
                /\ ~mappings_df.has_std
           ELSE IF AliasHits(parsed_json.payee) = {}
           THEN naming_runs[j].mapped_payee = parsed_json.payee
           ELSE naming_runs[j].mapped_payee \in
                    {mappings_df.rows[k].Short_Form : k \in AliasHits(parsed_json.payee)}

\* A trust-account payment whose payee the table would have shortened.
C22_Witness ==
    /\ Len(naming_runs) >= 1
    /\ parsed_json.payer = PAYER_NOMINEE
    /\ AliasHits(parsed_json.payee) # {}
    /\ \A k \in AliasHits(parsed_json.payee) :
           mappings_df.rows[k].Short_Form # parsed_json.payee
    /\ naming_runs[1].mapped_payee = parsed_json.payee

(***************************************************************************)
(* C23: the set of processed filenames.                                    *)
(***************************************************************************)

\* The files of the run that came through extraction and naming.
Succeeded == {processed_files[j].original_filename : j \in 1..Len(processed_files)}

\* The files of the run that ended with an error.
Failed == {errors[j].filename : j \in 1..Len(errors)}

\* The files the next run is offered with 'skip already processed files' on.
OfferedNext == files_to_process(downloaded_files, TRUE, processed_filenames)

\* C23: after a run, a filename is in the processed set only if its document
\* was processed successfully, and every document that failed is offered to
\* the next run.
C23_AsStated ==
    proc_pc = "stored" =>
        /\ processed_filenames \subseteq Succeeded
        /\ \A f \in Failed : \E k \in 1..Len(OfferedNext) : OfferedNext[k] = f

(***************************************************************************)
(* C24, C25: when a chunked delivery reports success.                      *)
(***************************************************************************)

\* The logged delivery went by upload session and has returned.
ChunkedReturned == DeliveryReturned /\ ChunkLog # <<>>

\* The record of the logged delivery.
LoggedOutcome == upload_results[upload_index - 1]

\* C24 as stated: a chunked delivery that reports success has sent every
\* byte of the payload, whatever status codes the store answered the chunks
\* with.
C24_AsStated ==
    (ChunkedReturned /\ LoggedOutcome.success) =>
        uploaded = LoggedFile.pdf_data.size

\* C24: a chunked delivery reports success at the first chunk request that
\* is answered 200 or 201, and at no other point; against a store that
\* answers 202 to every range but the one completing the upload, every byte
\* of the payload has then been sent.
C24_SuccessAtCompletion ==
    (ChunkedReturned /\ LoggedOutcome.success) =>
        /\ ChunkLog[Len(ChunkLog)].status \in {200, 201}
        /\ \A i \in 1..(Len(ChunkLog) - 1) : ChunkLog[i].status = 202
        /\ uploaded = ChunkLog[Len(ChunkLog)].last + 1
        /\ store_conforms => uploaded = LoggedFile.pdf_data.size

\* A payload of 4 MiB + 1 delivered in five ranges, the last of one byte.
C24_Witness ==
    /\ ChunkedReturned
    /\ LoggedOutcome.success
    /\ store_conforms
    /\ LoggedFile.pdf_data.size = 4 * 1024 * 1024 + 1
    /\ Len(ChunkLog) = 5
    /\ uploaded = 4 * 1024 * 1024 + 1

\* C25 as stated: a chunked delivery whose chunk requests were all answered
\* 200, 201 or 202 reports success.
C25_AsStated ==
    (ChunkedReturned /\ NoChunkFailed) => LoggedOutcome.success

\* C25: a chunked delivery whose chunk requests were all answered 200, 201
\* or 202 reports success exactly when its last chunk request was answered
\* 200 or 201; when the whole payload has gone out and the last range too was
\* answered 202, it reports the failure "unexpected response".
C25_SuccessOnCompletion ==
    (ChunkedReturned /\ NoChunkFailed) =>
        /\ LoggedOutcome.success <=> ChunkLog[Len(ChunkLog)].status \in {200, 201}
        /\ \A i \in 1..(Len(ChunkLog) - 1) : ChunkLog[i].status = 202
        /\ ~LoggedOutcome.success =>
              /\ LoggedOutcome.error = UploadErrorOf("UnexpectedResponse", 0, 0, 0)
              /\ uploaded = LoggedFile.pdf_data.size

\* Five ranges of a 5 MiB payload, each answered 202: a failure.
C25_Witness ==
    /\ ChunkedReturned
    /\ NoChunkFailed
    /\ Len(ChunkLog) = 5
    /\ \A i \in 1..5 : ChunkLog[i].status = 202
    /\ ~LoggedOutcome.success
    /\ LoggedOutcome.error.kind = "UnexpectedResponse"

(***************************************************************************)
(* C26: the folder and the payer class.                                    *)
(***************************************************************************)

\* The folder a payer's documents belong in.
FolderOfPayer(payer) == IF payer = PAYER_NOMINEE THEN NomineeEcheque ELSE WmcEcheque

\* C26: the filename generated for a field record resolves to the folder of
\* the record's payer class, whatever the key identifier, the currency and the
\* payee are.
C26_AsStated ==
    \A j \in 1..Len(naming_runs) :
        determine_target_folder(naming_runs[j].generated_filename,
                                "finance-team", "token")
            = FolderOfPayer(parsed_json.payer)

(***************************************************************************)
(* C27: what the destination holds after a batch of successes.             *)
(***************************************************************************)

\* The batch has returned and every delivery reported success.
AllDelivered ==
    /\ up_pc = "returned"
    /\ TokenObtained
    /\ files_to_upload # <<>>
    /\ \A i \in 1..Len(upload_results) : upload_results[i].success

\* Where document i is stored: the folder and the name.
PlaceOf(i) ==
    << determine_target_folder(files_to_upload[i].generated_filename,
                               "finance-team", token).folder_id,
       teams_sanitize_filename(files_to_upload[i].generated_filename) >>

\* The destination holds an item with the payload of document i.
HoldsPayloadOf(i) ==
    \E it \in store : /\ it.data = files_to_upload[i].pdf_data.data
                      /\ it.size = files_to_upload[i].pdf_data.size

\* The last document of the batch stored at the place of document i.
LastAtPlaceOf(i) ==
    CHOOSE j \in i..Len(files_to_upload) :
        /\ PlaceOf(j) = PlaceOf(i)
        /\ \A k \in (j + 1)..Len(files_to_upload) : PlaceOf(k) # PlaceOf(i)

\* C27 as stated: after a batch of successes the destination holds, for each
\* document, an item with that document's payload, also when two documents
\* have the same generated filename.
C27_AsStated ==
    (AllDelivered /\ store_conforms) =>
        \A i \in 1..Len(files_to_upload) : HoldsPayloadOf(i)

\* C27: after a batch of successes, against a store that keeps to its
\* contract, there is exactly one item at the place of each document, and it
\* holds the payload of the last document of the batch delivered to that
\* place: a document keeps its item unless a later document of the batch has
\* the same sanitized filename and folder, which then replaces its content.
C27_LastWriterHolds ==
    (AllDelivered /\ store_conforms) =>
        \A i \in 1..Len(files_to_upload) :
            LET items == ItemsNamed(store, PlaceOf(i)[1], PlaceOf(i)[2])
                last == files_to_upload[LastAtPlaceOf(i)]
            IN  /\ Cardinality(items) = 1
                /\ \A it \in items : /\ it.data = last.pdf_data.data
                                     /\ it.size = last.pdf_data.size

\* Two documents of the same generated filename and different payloads, both
\* delivered: the item holds the second one's payload.
C27_Witness ==
    /\ AllDelivered
    /\ store_conforms
    /\ Len(files_to_upload) = 2
    /\ PlaceOf(1) = PlaceOf(2)
    /\ files_to_upload[1].pdf_data # files_to_upload[2].pdf_data
    /\ ~HoldsPayloadOf(1)
    /\ HoldsPayloadOf(2)

(***************************************************************************)
(* C28: what ensure_valid_token returns.                                   *)
(***************************************************************************)

\* C28: when ensure_valid_token has returned without an error, the token it
\* returned is present and expires more than five minutes after the time of
\* the call, whatever the identity provider answered.
C28_AsStated ==
    TokenObtained =>
        /\ token # "None"
        /\ token_expires_at > START_TIME + REFRESH_MARGIN

(***************************************************************************)
(* C29, C30: the delivery sanitizer.                                       *)
(***************************************************************************)

\* The characters the remote store does not allow in a name.
Disallowed == {"\"", "*", ":", "<", ">", "?", "/", "\\", "|", "#", "%", "{", "}", "~"}

\* C29: the sanitized name contains no disallowed character, does not start
\* with a dot and has no whitespace at either end.
C29_AsStated ==
    sanitize_result.done =>
        LET name == sanitize_result.name
        IN  /\ \A k \in 1..Len(name) : name[k] \notin Disallowed
            /\ name # <<>> =>
                  /\ name[1] # "."
                  /\ name[1] \notin Whitespace
                  /\ name[Len(name)] \notin Whitespace

\* The input with its disallowed characters replaced, outer whitespace and
\* then leading dots removed: the name before any truncation.
Untruncated ==
    strip_leading_dots(str_strip([k \in 1..Len(sanitize_input) |->
        IF sanitize_input[k] \in Disallowed THEN "_" ELSE sanitize_input[k]]))

\* C30: the sanitized name is at most 240 characters long, and a name that
\* was truncated still ends with the extension it had before.
C30_AsStated ==
    sanitize_result.done =>
        /\ Len(sanitize_result.name) <= 240
        /\ sanitize_result.name # Untruncated =>
              EndsWith(sanitize_result.name, splitext(Untruncated)[2])

(***************************************************************************)
(* C31: the sanitization of the payee in the filename.                     *)
(***************************************************************************)

\* The characters the naming stage is to strip.
NamingDisallowed == {"\\", "/", "*", "?", ":", "\"", "<", ">", "|"}

\* The payee with exactly those characters removed, the others kept in order.
StrippedPayee(payee) == SelectSeq(payee, LAMBDA c : c \notin NamingDisallowed)

\* C31: the payee part of the generated filename is the resolved payee with
\* the characters \ / * ? : " < > | removed and every other character kept.
C31_AsStated ==
    \A run \in Runs :
        \E suffix \in {STR_PDF, STR_T_PDF, STR_MF_PDF} :
            run.generated_filename =
                TemplateOf(PayerClassOf(parsed_json.payer), parsed_json.key_identifier,
                           StrippedPayee(run.mapped_payee), parsed_json.currency)
                \o suffix

(***************************************************************************)
(* C32: the alias table during a batch.                                    *)
(***************************************************************************)

\* The tables load_mappings can have returned at the start of the batch.
TablesAsLoaded == {EmptyTable, LoadedTable}

\* C32: whatever process_echeques has processed so far, the table object is
\* as it was loaded: the same columns and the same rows.
C32_AsStated == mappings_df \in TablesAsLoaded

(***************************************************************************)
(* C33: naming and failure.                                                *)
(***************************************************************************)

\* The response being handled is a JSON object with every required field.
CompleteResponse ==
    /\ HandlingObject
    /\ CheckedFields \subseteq api_result.response.present

\* C33: a parsed response with all required fields, whatever their values (a
\* null payee included), is named: the document gets a result with a
\* filename and no error is recorded for it.
C33_AsStated ==
    [][CompleteResponse =>
          /\ errors' = errors
          /\ Len(processed_files') = Len(processed_files) + 1
          /\ processed_files'[Len(processed_files')].generated_filename # <<>>]_vars

(***************************************************************************)
(* C34: the progress notifications of a batch.                             *)
(***************************************************************************)

\* The number of documents whose outcome (a result or an error) is recorded.
Outcomes == Len(processed_files) + Len(errors)

\* The step sends a notification.
Notifies == progress_log' # progress_log

\* One notification per document of the batch, in input order.
OncePerDocument ==
    /\ Len(progress_log) <= Len(downloaded_files)
    /\ \A k \in 1..Len(progress_log) : progress_log[k] = downloaded_files[k]
    /\ proc_pc \in {"returned", "stored"} => Len(progress_log) = Len(downloaded_files)

\* C34 as stated: exactly one notification per document, in input order, and
\* the notification for document i is sent after the outcome of document i
\* is recorded and before document i+1 begins.
C34_AsStated ==
    /\ []OncePerDocument
    /\ [][Notifies =>
             LET i == progress_log'[Len(progress_log')]
             IN  /\ Len(processed_files') + Len(errors') >= i
                 /\ file_index' <= i + 1]_vars

\* C34, amended: exactly one notification per document, in input order, and
\* the notification for document i is sent at the start of its iteration:
\* after the outcome of document i-1 is recorded and before document i is
\* processed (the delay, the extraction and its outcome all come after it).
C34_NotifiedAtStart ==
    /\ []OncePerDocument
    /\ [][Notifies =>
             /\ proc_pc = "loop"
             /\ progress_log' = Append(progress_log, file_index)
             /\ Outcomes = file_index - 1
             /\ \A k \in 1..Len(sleep_log) : sleep_log[k].file < file_index]_vars
    /\ [][Len(processed_files') + Len(errors') > Outcomes =>
             /\ Len(progress_log') = file_index
             /\ Len(processed_files') + Len(errors') = file_index]_vars

\* A batch of two documents has returned, the first of them failed, and both
\* were notified.
C34_Witness ==
    /\ proc_pc = "returned"
    /\ Len(downloaded_files) = 2
    /\ progress_log = << 1, 2 >>
    /\ Len(errors) >= 1 /\ errors[1].filename = 1
    /\ Len(processed_files) = 1

(***************************************************************************)
(* C35: the delay between the documents of a batch.                        *)
(***************************************************************************)

\* The delays of the given kind slept for document i.
DelaysOf(why, i) ==
    { k \in 1..Len(sleep_log) : sleep_log[k].why = why /\ sleep_log[k].file = i }

\* The extraction of the current document begins in this step.
BeginsExtraction == proc_pc = "loop" /\ proc_pc' = "pdf"

\* C35: before the extraction of every document but the first, and never
\* before the first, process_echeques sleeps 2 time-units, whatever became of
\* the document before; the delays of the recognition call (1 before the
\* first attempt, the backoff before a retry) are slept on top of it.
C35_InterFileDelay ==
    /\ [][BeginsExtraction =>
             IF file_index > 1
             THEN sleep_log' = Append(sleep_log,
                                      [why |-> "inter_file", secs |-> 2,
                                       file |-> file_index])
             ELSE sleep_log' = sleep_log]_vars
    /\ [](/\ DelaysOf("inter_file", 1) = {}
          /\ \A i \in 2..Len(downloaded_files) :
                /\ Cardinality(DelaysOf("inter_file", i)) <= 1
                /\ \A k \in DelaysOf("inter_file", i) : sleep_log[k].secs = 2
                /\ \A k \in DelaysOf("fixed", i) \cup DelaysOf("backoff", i) :
                      \E d \in DelaysOf("inter_file", i) : d < k
          /\ (proc_pc \in {"pdf", "api", "attempt", "response"} /\ file_index > 1) =>
                Cardinality(DelaysOf("inter_file", file_index)) = 1)

\* The second document is being retried after the first one failed: the
\* 2 units, the 1 unit and a backoff delay have all been slept for it.
C35_Witness ==
    /\ proc_pc = "attempt"
    /\ file_index = 2
    /\ Len(errors) = 1
    /\ DelaysOf("inter_file", 2) # {}
    /\ DelaysOf("fixed", 2) # {}
    /\ DelaysOf("backoff", 2) # {}
    /\ DelaysOf("inter_file", 1) = {}

(***************************************************************************)
(* C36: the fixed delay of the recognition call and the backoff.           *)
(***************************************************************************)

\* The delays slept so far by the recognition call of the current document,
\* in order.
CallDelays ==
    SelectSeq(sleep_log,
              LAMBDA e : e.file = file_index /\ e.why \in {"fixed", "backoff"})

\* A recognition call of the current document has started.
InCall == proc_pc = "attempt" \/ CallReturned

\* C36: every recognition call sleeps 1 time-unit exactly once, before its
\* first attempt; all its later delays are backoff delays, one before each
\* retry: 1, 2, 4, 8 (doubling, none above 32), and the fixed delay is not
\* slept again.
C36_FixedDelayOnce ==
    /\ [][(proc_pc = "api" /\ proc_pc' = "attempt") =>
             /\ attempt_log' = <<>>
             /\ sleep_log' = Append(sleep_log,
                                    [why |-> "fixed", secs |-> 1,
                                     file |-> file_index])]_vars
    /\ [](InCall =>
             /\ Len(CallDelays) = Len(attempt_log) +
                                      (IF proc_pc = "attempt" THEN 1 ELSE 0)
             /\ CallDelays[1] = [why |-> "fixed", secs |-> 1, file |-> file_index]
             /\ \A k \in 2..Len(CallDelays) :
                   /\ CallDelays[k].why = "backoff"
                   /\ CallDelays[k].secs = << 1, 2, 4, 8 >>[k - 1]
                   /\ CallDelays[k].secs <= MAX_WAIT)

\* The fifth attempt of a call is about to be made: the fixed delay and the
\* four backoff delays have been slept.
C36_Witness ==
    /\ proc_pc = "attempt"
    /\ Len(attempt_log) = 4
    /\ Len(CallDelays) = 5
    /\ CallDelays[5].secs = 8

(***************************************************************************)
(* C37: when the recognition service is invoked.                           *)
(***************************************************************************)

\* The step invokes the recognition service.
InvokesService == Len(attempt_log') > Len(attempt_log)

\* The step records the given error for the current document and makes no
\* result for it.
FailsWith(kind) ==
    /\ RecordedFailure
    /\ errors'[Len(errors')].error.kind = kind
    /\ processed_files' = processed_files
    /\ file_index' = file_index + 1

\* No recognition call was started for the current document: no attempt,
\* no delay of the call.
NoCallMade ==
    /\ attempt_log = <<>> /\ attempt_log' = <<>>
    /\ \A k \in 1..Len(sleep_log') :
          sleep_log'[k].file = file_index => sleep_log'[k].why = "inter_file"

\* C37: the recognition service is invoked for a document only if the API key
\* is present and the source has at least one page; a source without pages
\* fails with the empty-document error and a missing key with the
\* configuration error, in both cases with no call to the service and no
\* filename.
C37_NoCallWithoutKeyOrPage ==
    /\ [][InvokesService =>
             /\ gemini_api_key
             /\ pdf_documents[file_index] = "one_page"]_vars
    /\ [][(proc_pc = "pdf" /\ pdf_documents[file_index] = "no_pages") =>
             FailsWith("EmptyPdf") /\ NoCallMade]_vars
    /\ [][(proc_pc = "api" /\ ~gemini_api_key) =>
             /\ api_result'.error.kind = "MissingApiKey"
             /\ proc_pc' = "response"
             /\ NoCallMade]_vars
    /\ [][(proc_pc = "response" /\ api_result.error.kind = "MissingApiKey") =>
             FailsWith("MissingApiKey") /\ NoCallMade]_vars
    /\ [](\A j \in 1..Len(processed_files) :
             /\ gemini_api_key
             /\ pdf_documents[processed_files[j].original_filename] = "one_page")

\* A batch without a key has returned: its first document had no pages, its
\* second one had a page, and neither was sent to the service.
C37_Witness ==
    /\ proc_pc = "returned"
    /\ ~gemini_api_key
    /\ pdf_documents = << "no_pages", "one_page" >>
    /\ Len(errors) = 2
    /\ errors[1].error.kind = "EmptyPdf"
    /\ errors[2].error.kind = "MissingApiKey"
    /\ processed_files = <<>>

(***************************************************************************)
(* C38: termination of a batch.                                            *)
(***************************************************************************)

\* ceil(n / d)
CeilDiv(n, d) == (n + d - 1) \div d

\* process_echeques has returned an outcome for every document, or
\* upload_files_to_teams has returned (the token error, or a result for every
\* file).
BatchReturned ==
    \/ /\ proc_pc = "returned"
       /\ Len(processed_files) + Len(errors) = Len(downloaded_files)
    \/ /\ up_pc = "returned"
       /\ \/ upload_error # NoUploadError
          \/ Len(upload_results) = Len(files_to_upload)

\* The step sends a chunk request.
SendsChunk == up_pc = "chunk" /\ Len(request_log') = Len(request_log) + 1

\* The step ends the delivery of the current file with the given verdict.
DeliveryEnds(success) ==
    /\ Len(upload_results') = Len(upload_results) + 1
    /\ upload_results'[Len(upload_results')].success = success
    /\ up_pc' \in {"next", "returned"}

\* C38: with every external call returning, every batch returns.  The
\* recognition service is called at most 5 times per document.  A delivery
\* sends at most ceil(total / 1 MiB) chunk requests: every chunk request
\* advances the uploaded byte count, towards total, unless it ends the
\* delivery with a failure; and a delivery ends in success or in a failure
\* that carries an error.
C38_BatchTerminates ==
    /\ <>BatchReturned
    /\ [](Len(attempt_log) <= MAX_RETRIES)
    /\ [](request_log # <<>> =>
            Len(RequestsOf({"chunk"})) <=
                CeilDiv(LoggedFile.pdf_data.size, 1024 * 1024))
    /\ [][SendsChunk =>
             \/ /\ uploaded' > uploaded
                /\ uploaded' <= CurrentFile.pdf_data.size
                /\ (uploaded' = CurrentFile.pdf_data.size =>
                        DeliveryEnds(TRUE) \/ DeliveryEnds(FALSE))
             \/ uploaded' = uploaded /\ DeliveryEnds(FALSE)]_vars
    /\ [](\A i \in 1..Len(upload_results) :
             /\ upload_results[i].success \in BOOLEAN
             /\ upload_results[i].success <=> upload_results[i].error = NoUploadError)

\* A batch of two documents has returned after the second one had used all
\* five attempts; and a payload of 5 MiB has been delivered in five chunks.
C38_Witness ==
    \/ /\ proc_pc = "returned"
       /\ Len(downloaded_files) = 2
       /\ Len(errors) >= 1
       /\ errors[Len(errors)].error.kind = "RateLimitExhausted"
       /\ errors[Len(errors)].filename = 2
    \/ /\ up_pc = "returned"
       /\ Len(upload_results) = 1
       /\ upload_results[1].success
       /\ Len(RequestsOf({"chunk"})) = 5

(***************************************************************************)
(* The specifications.                                                     *)
(***************************************************************************)
\* The naming step alone, on every combination of the sample field values.
InitNaming == NamingInit /\ ProcIdle /\ FolderIdle /\ SanitizeIdle /\ TeamsIdle
NextNaming == RunNaming
SpecNaming == InitNaming /\ [][NextNaming]_vars

\* process_echeques over a batch of at most MaxFiles documents.
InitProcess == ProcInit /\ NamingIdle /\ FolderIdle /\ SanitizeIdle /\ TeamsIdle
SpecProcess == InitProcess /\ [][ProcNext]_vars

\* determine_target_folder on every sample filename.
InitFolder == FolderInit /\ NamingIdle /\ mappings_df = EmptyTable /\ ProcIdle /\ SanitizeIdle /\ TeamsIdle
NextFolder == ResolveFolder
SpecFolder == InitFolder /\ [][NextFolder]_vars

\* upload_files_to_teams over a batch of at most MaxUploads files.
InitTeams == TeamsInit /\ NamingIdle /\ mappings_df = EmptyTable /\ ProcIdle /\ FolderIdle /\ SanitizeIdle
SpecTeams == InitTeams /\ [][TeamsNext]_vars

\* A batch of either kind that nothing interrupts and whose every external
\* call returns: the code is sequential, so each step is taken once the one
\* before it has returned.  The upload batch is of at most MaxDeliveries files.
MaxDeliveries == 1
InitReturning == InitProcess \/ (InitTeams /\ Len(files_to_upload) <= MaxDeliveries)
NextReturning ==
    \/ BeginFile
    \/ PdfToImage
    \/ CallGeminiApi
    \/ Attempt
    \/ HandleResponse
    \/ EnsureValidToken
    \/ BeginUpload
    \/ GetSite
    \/ GetDrives
    \/ Probe
    \/ PutContent
    \/ CreateSession
    \/ Chunk
SpecReturning == InitReturning /\ [][NextReturning]_vars /\ WF_vars(NextReturning)

\* The delivery sanitizer on every sample name.
InitSanitize == SanitizeInit /\ NamingIdle /\ mappings_df = EmptyTable /\ ProcIdle /\ FolderIdle /\ TeamsIdle
NextSanitize == SanitizeName
SpecSanitize == InitSanitize /\ [][NextSanitize]_vars
=============================================================================
